---- MODULE Spec2Model ----
(***************************************************************************)
(* A model of the launchd crate's CalendarInterval (calendar_interval.rs): *)
(* the five validating setters, the cron expansion from_cron_schedule and  *)
(* the derived decoder; and of the builders of Launchd (lib.rs) and        *)
(* MachServiceOptions (mach_services.rs).                                  *)
(*                                                                         *)
(* The specifications share the module's variables:                        *)
(*   SpecCron    runs from_cron_schedule step by step on a schedule drawn   *)
(*               from Schedules;                                            *)
(*   SpecSetter  applies chains of with_minute/.../with_month calls with    *)
(*               arguments drawn from the whole u8 range;                   *)
(*   SpecChain   applies longer chains of the same setters, with arguments  *)
(*               at the ends of the fields' ranges, and keeps the chain;    *)
(*   SpecDecode  deserializes a CalendarInterval from a dictionary;         *)
(*   SpecSocket  applies chains of Launchd::with_socket;                    *)
(*   SpecLaunchd applies the other setters of Launchd and the setters of    *)
(*               MachServiceOptions;                                        *)
(*   SpecPlist   writes a Launchd as a property list and reads documents     *)
(*               back, and decodes the untagged enums and ProcessType.       *)
(***************************************************************************)
EXTENDS Integers, Sequences, FiniteSets, TLC

VARIABLES
    schedule,    \* cron: the Schedule argument, unit -> [all, ords]
    it,          \* cron: unit -> number of items the unit's loop iterator has yielded
    lvl,         \* cron: index in Units of the loop the control is in
    pc,          \* cron: "for" | "body" | "brk" | "done"; setter spec: "setter"
    result_vec,  \* cron: the local Vec the expansion pushes to
    ret,         \* cron: what from_cron_schedule returned (Pending until it returns)
    runs,        \* cron: number of times the innermost loop body was run (history)
    ci,          \* setter: the interval the next setter is called on
    call,        \* setter: the last call  [setter, arg, res]
    calls,       \* setter: number of setter calls made in the chain
    hist,        \* chain: the calls of the chain that were made, in order
    launchd,     \* builder: the Launchd the next setter is called on
    options,     \* builder: the MachServiceOptions the next setter is called on
    document     \* plist: the document that was written or is to be read

vars == <<schedule, it, lvl, pc, result_vec, ret, runs, ci, call, calls, hist, launchd, options, document>>

----------------------------------------------------------------------------
(* Bounds *)

\* longest explicit set of ordinals a schedule unit holds
MaxSetLen == 2

\* longest chain of setter calls
MaxCalls == 1

\* longest chain of setter calls whose links are kept
MaxChain == 2

----------------------------------------------------------------------------
(* Integer widths *)

\* largest value of the field type u8
U8Max == 255

U8 == 0..U8Max

----------------------------------------------------------------------------
(* CalendarInterval and Error *)

\* Option::None of a field
None == -1

Fields == {"minute", "hour", "day", "weekday", "month"}

\* CalendarInterval::default(): every field None
Default == [minute |-> None, hour |-> None, day |-> None, weekday |-> None, month |-> None]

new == Default

\* Error::CalendarFieldOutOfBounds(lo..=hi, value)
CalendarFieldOutOfBounds(lo, hi, value) ==
    [kind |-> "CalendarFieldOutOfBounds", lo |-> lo, hi |-> hi, value |-> value]

\* Error::InvalidCronField(ordinal)
InvalidCronField(ordinal) ==
    [kind |-> "InvalidCronField", ordinal |-> ordinal]

\* Result::Ok / Result::Err
Ok(v) == [ok |-> TRUE, val |-> v]

Err(e) == [ok |-> FALSE, err |-> e]

\* an off-by-one in the bound
with_minute_off_by_one(self, minute) ==
    IF minute >= 59
    THEN Err(CalendarFieldOutOfBounds(0, 59, minute))
    ELSE Ok([self EXCEPT !.minute = minute])

with_minute(self, minute) ==
    IF minute > 59
    THEN Err(CalendarFieldOutOfBounds(0, 59, minute))
    ELSE Ok([self EXCEPT !.minute = minute])

\* the result built from a fresh interval instead of self
with_hour_fresh(self, hour) ==
    IF hour > 23
    THEN Err(CalendarFieldOutOfBounds(0, 23, hour))
    ELSE Ok([Default EXCEPT !.hour = hour])

with_hour(self, hour) ==
    IF hour > 23
    THEN Err(CalendarFieldOutOfBounds(0, 23, hour))
    ELSE Ok([self EXCEPT !.hour = hour])

\* the test for zero left out
with_day_no_zero(self, day) ==
    IF day > 31
    THEN Err(CalendarFieldOutOfBounds(1, 31, day))
    ELSE Ok([self EXCEPT !.day = day])

\* the value clamped into the range instead of refused
with_day_saturating(self, day) ==
    IF day = 0 \/ day > 31
    THEN Ok([self EXCEPT !.day = 31])
    ELSE Ok([self EXCEPT !.day = day])

with_day(self, day) ==
    IF day = 0 \/ day > 31
    THEN Err(CalendarFieldOutOfBounds(1, 31, day))
    ELSE Ok([self EXCEPT !.day = day])

\* the value assigned to the neighbouring field
with_weekday_wrong_field(self, weekday) ==
    IF weekday > 7
    THEN Err(CalendarFieldOutOfBounds(0, 7, weekday))
    ELSE Ok([self EXCEPT !.day = weekday])

with_weekday(self, weekday) ==
    IF weekday > 7
    THEN Err(CalendarFieldOutOfBounds(0, 7, weekday))
    ELSE Ok([self EXCEPT !.weekday = weekday])

\* a field already set is kept
with_month_keep_first(self, month) ==
    IF month = 0 \/ month > 12
    THEN Err(CalendarFieldOutOfBounds(1, 12, month))
    ELSE IF self.month # None THEN Ok(self) ELSE Ok([self EXCEPT !.month = month])

with_month(self, month) ==
    IF month = 0 \/ month > 12
    THEN Err(CalendarFieldOutOfBounds(1, 12, month))
    ELSE Ok([self EXCEPT !.month = month])

\* a slip of is_some for is_none
is_initialized_is_none(self) ==
    \/ self.minute = None
    \/ self.hour = None
    \/ self.day = None
    \/ self.weekday = None
    \/ self.month = None

\* one field left out of the disjunction
is_initialized_no_month(self) ==
    \/ self.minute # None
    \/ self.hour # None
    \/ self.day # None
    \/ self.weekday # None

is_initialized(self) ==
    \/ self.minute # None
    \/ self.hour # None
    \/ self.day # None
    \/ self.weekday # None
    \/ self.month # None

----------------------------------------------------------------------------
(* The cron Schedule handed to from_cron_schedule *)

\* the loop nest, outermost first
Units == <<"month", "weekday", "day", "hour", "minute">>

NUnits == Len(Units)

\* a wrapping cast (`as u8`) in place of the checked conversion
try_into_wrapping(ordinal) == Ok(ordinal % (U8Max + 1))

\* u32 -> u8, TryInto: fails above u8::MAX
try_into(ordinal) ==
    IF ordinal > U8Max THEN Err("TryFromIntError") ELSE Ok(ordinal)

\* the ordinals a unit of a schedule is drawn from: two that its field
\* accepts (the ends of the field's range) ...
AcceptedOrdinals(u) ==
    CASE u = "month"   -> {1, 12}
      [] u = "weekday" -> {0, 7}
      [] u = "day"     -> {1, 31}
      [] u = "hour"    -> {0, 23}
      [] u = "minute"  -> {0, 59}

\* ... and one that it rejects: out of the field's range (0, or the value
\* past the end), or not convertible to u8
RejectedOrdinals(u) ==
    CASE u = "month"   -> {13}
      [] u = "weekday" -> {256}
      [] u = "day"     -> {0}
      [] u = "hour"    -> {256}
      [] u = "minute"  -> {60}

Ordinals(u) == AcceptedOrdinals(u) \cup RejectedOrdinals(u)

\* the strictly increasing sequences of 1..n elements of S (an ordinal set
\* iterates in increasing order)
IncreasingSeqs(S, n) ==
    UNION { { s \in [1..k -> S] : \A i \in 1..(k - 1) : s[i] < s[i + 1] } : k \in 1..n }

Range(s) == { s[i] : i \in DOMAIN s }

\* what a wildcard unit iterates: more than one ordinal, all of them valid
\* for the field or not
WildcardOrds(u) ==
    { s \in IncreasingSeqs(Ordinals(u), Cardinality(Ordinals(u))) :
        Range(s) \in {AcceptedOrdinals(u), Ordinals(u)} }

\* one unit of a schedule: is_all() and what iter() yields
UnitSpecs(u) ==
    [all : {TRUE}, ords : WildcardOrds(u)]
        \cup [all : {FALSE}, ords : IncreasingSeqs(Ordinals(u), MaxSetLen)]

Schedules ==
    [month : UnitSpecs("month"), weekday : UnitSpecs("weekday"),
     day : UnitSpecs("day"), hour : UnitSpecs("hour"), minute : UnitSpecs("minute")]

----------------------------------------------------------------------------
(* from_cron_schedule, one step per loop-control point *)

Pending == [tag |-> "Pending"]

ReturnOk(vec) == [tag |-> "Ok", vec |-> vec]

ReturnErr(e) == [tag |-> "Err", err |-> e]

\* the value the loop of unit u currently holds
Current(u) == schedule[Units[u]].ords[it[u]]

\* Lines 97-127 are five statements of one shape,
\*   if !schedule.<unit>().is_all() {
\*       result.with_<unit>(ord.try_into().map_err(|_| Error::InvalidCronField(ord))?)?;
\*   }
\* `result` is an immutable binding; the setter takes it by value
\* (CalendarInterval is Copy) and the interval it returns is dropped at the
\* `;`.  Only an error leaves the statement.  Each operator yields that
\* error, or Ok(result) with `result` as it is after the statement.

\* lines 97-103
SetMonth(s, result, month) ==
    IF ~s.month.all
    THEN IF ~try_into(month).ok
         THEN Err(InvalidCronField(month))
         ELSE IF ~with_month(result, try_into(month).val).ok
              THEN Err(with_month(result, try_into(month).val).err)
              ELSE Ok(result)
    ELSE Ok(result)

\* lines 104-110
SetWeekday(s, result, weekday) ==
    IF ~s.weekday.all
    THEN IF ~try_into(weekday).ok
         THEN Err(InvalidCronField(weekday))
         ELSE IF ~with_weekday(result, try_into(weekday).val).ok
              THEN Err(with_weekday(result, try_into(weekday).val).err)
              ELSE Ok(result)
    ELSE Ok(result)

\* the setter's error mapped to InvalidCronField like the conversion's
SetDay_map_err(s, result, day) ==
    IF ~s.day.all
    THEN IF ~try_into(day).ok \/ ~with_day(result, try_into(day).val).ok
         THEN Err(InvalidCronField(day))
         ELSE Ok(result)
    ELSE Ok(result)

\* lines 111-115
SetDay(s, result, day) ==
    IF ~s.day.all
    THEN IF ~try_into(day).ok
         THEN Err(InvalidCronField(day))
         ELSE IF ~with_day(result, try_into(day).val).ok
              THEN Err(with_day(result, try_into(day).val).err)
              ELSE Ok(result)
    ELSE Ok(result)

\* the hour taken without conversion or validation
SetHour_unchecked(s, result, hour) == Ok(result)

\* lines 116-120
SetHour(s, result, hour) ==
    IF ~s.hour.all
    THEN IF ~try_into(hour).ok
         THEN Err(InvalidCronField(hour))
         ELSE IF ~with_hour(result, try_into(hour).val).ok
              THEN Err(with_hour(result, try_into(hour).val).err)
              ELSE Ok(result)
    ELSE Ok(result)

\* lines 121-127
SetMinute(s, result, minute) ==
    IF ~s.minute.all
    THEN IF ~try_into(minute).ok
         THEN Err(InvalidCronField(minute))
         ELSE IF ~with_minute(result, try_into(minute).val).ok
              THEN Err(with_minute(result, try_into(minute).val).err)
              ELSE Ok(result)
    ELSE Ok(result)

\* the five statements in the opposite order, minute first
BuildInterval_minute_first(s, month, weekday, day, hour, minute) ==
    LET result == Default
        r1 == SetMinute(s, result, minute)
        r2 == IF r1.ok THEN SetHour(s, r1.val, hour) ELSE r1
        r3 == IF r2.ok THEN SetDay(s, r2.val, day) ELSE r2
        r4 == IF r3.ok THEN SetWeekday(s, r3.val, weekday) ELSE r3
        r5 == IF r4.ok THEN SetMonth(s, r4.val, month) ELSE r4
    IN  r5

\* lines 94-127: the five statements in order, `?` leaving at the first error
BuildInterval(s, month, weekday, day, hour, minute) ==
    LET result == Default
        r1 == SetMonth(s, result, month)
        r2 == IF r1.ok THEN SetWeekday(s, r1.val, weekday) ELSE r1
        r3 == IF r2.ok THEN SetDay(s, r2.val, day) ELSE r2
        r4 == IF r3.ok THEN SetHour(s, r3.val, hour) ELSE r3
        r5 == IF r4.ok THEN SetMinute(s, r4.val, minute) ELSE r4
    IN  r5

\* the push without its guard
PushAlways(vec, result) == Append(vec, result)

\* lines 129-131
PushIfInitialized(vec, result) ==
    IF is_initialized(result) THEN Append(vec, result) ELSE vec

\* no setter called yet
NoCall == [setter |-> "none", self |-> Default, arg |-> 0, res |-> Ok(Default)]

CronInit ==
    /\ schedule \in Schedules
    /\ it = [u \in 1..NUnits |-> 0]
    /\ lvl = 1
    /\ pc = "for"
    /\ result_vec = <<>>
    /\ ret = Pending
    /\ runs = 0
    /\ ci = Default
    /\ call = NoCall
    /\ calls = 0
    /\ hist = <<>>
    /\ launchd = <<>>
    /\ options = <<>>
    /\ document = <<>>

BuilderVars == <<hist, launchd, options, document>>

SetterVars == <<ci, call, calls, BuilderVars>>

\* control leaves the loop of level l: to the break test of the enclosing
\* loop, or (outermost loop) to `Ok(result_vec)`
ExitLoop(l) ==
    IF l = 1
    THEN /\ pc' = "done"
         /\ ret' = ReturnOk(result_vec)
         /\ lvl' = lvl
    ELSE /\ pc' = "brk"
         /\ lvl' = l - 1
         /\ ret' = ret

\* `for x in schedule.<unit>().iter()`: the iterator yields its next item
\* and control enters the loop body (the next loop, with a fresh iterator,
\* or the innermost body)
ForNext ==
    /\ pc = "for"
    /\ it[lvl] < Len(schedule[Units[lvl]].ords)
    /\ IF lvl < NUnits
       THEN /\ it' = [it EXCEPT ![lvl] = @ + 1, ![lvl + 1] = 0]
            /\ lvl' = lvl + 1
            /\ pc' = "for"
       ELSE /\ it' = [it EXCEPT ![lvl] = @ + 1]
            /\ lvl' = lvl
            /\ pc' = "body"
    /\ UNCHANGED <<schedule, result_vec, ret, runs, SetterVars>>

\* the iterator is exhausted: the loop ends
ForEnd ==
    /\ pc = "for"
    /\ it[lvl] = Len(schedule[Units[lvl]].ords)
    /\ ExitLoop(lvl)
    /\ UNCHANGED <<schedule, it, result_vec, runs, SetterVars>>

\* lines 94-131 fail: `?` returns the error
BodyErr ==
    /\ pc = "body"
    /\ LET r == BuildInterval(schedule, Current(1), Current(2), Current(3), Current(4), Current(5))
       IN  /\ ~r.ok
           /\ ret' = ReturnErr(r.err)
    /\ pc' = "done"
    /\ runs' = runs + 1
    /\ UNCHANGED <<schedule, it, lvl, result_vec, SetterVars>>

\* lines 94-131 succeed: the interval is pushed if initialized
BodyOk ==
    /\ pc = "body"
    /\ LET r == BuildInterval(schedule, Current(1), Current(2), Current(3), Current(4), Current(5))
       IN  /\ r.ok
           /\ result_vec' = PushIfInitialized(result_vec, r.val)
    /\ pc' = "brk"
    /\ runs' = runs + 1
    /\ UNCHANGED <<schedule, it, lvl, ret, SetterVars>>

\* the break left out: a wildcard unit's loop goes on to its next value
Break_as_continue ==
    /\ pc = "brk"
    /\ schedule[Units[lvl]].all
    /\ pc' = "for"
    /\ UNCHANGED <<schedule, it, lvl, result_vec, ret, runs, SetterVars>>

\* `if schedule.<unit>().is_all() { break; }` taken
Break ==
    /\ pc = "brk"
    /\ schedule[Units[lvl]].all
    /\ ExitLoop(lvl)
    /\ UNCHANGED <<schedule, it, result_vec, runs, SetterVars>>

\* `if schedule.<unit>().is_all() { break; }` not taken: next iteration
Continue ==
    /\ pc = "brk"
    /\ ~schedule[Units[lvl]].all
    /\ pc' = "for"
    /\ UNCHANGED <<schedule, it, lvl, result_vec, ret, runs, SetterVars>>

CronNext ==
    \/ ForNext
    \/ ForEnd
    \/ BodyErr
    \/ BodyOk
    \/ Break
    \/ Continue

SpecCron == CronInit /\ [][CronNext]_vars

----------------------------------------------------------------------------
(* Chains of setter calls *)

\* the intervals a chain starts from: the default one, and intervals built
\* by earlier setter calls with some or all fields set
Receivers ==
    { Default,
      [Default EXCEPT !.minute = 30],
      [Default EXCEPT !.day = 15, !.month = 6],
      [minute |-> 0, hour |-> 0, day |-> 1, weekday |-> 0, month |-> 1],
      [minute |-> 59, hour |-> 23, day |-> 31, weekday |-> 7, month |-> 12] }

SetterInit ==
    /\ ci \in Receivers
    /\ call = NoCall
    /\ calls = 0
    /\ pc = "setter"
    /\ schedule = <<>>
    /\ it = <<>>
    /\ lvl = 0
    /\ result_vec = <<>>
    /\ ret = Pending
    /\ runs = 0
    /\ hist = <<>>
    /\ launchd = <<>>
    /\ options = <<>>
    /\ document = <<>>

CronVars == <<schedule, it, lvl, result_vec, ret, runs>>

\* the chain has not failed and may go on
CanCall == pc = "setter" /\ calls < MaxCalls

\* one call `ci.with_<field>(arg)`: on Ok the chain goes on with the new
\* interval, on Err the chain ends with the error
Called(name, arg, res) ==
    /\ call' = [setter |-> name, self |-> ci, arg |-> arg, res |-> res]
    /\ calls' = calls + 1
    /\ ci' = IF res.ok THEN res.val ELSE ci
    /\ pc' = IF res.ok THEN "setter" ELSE "failed"
    /\ UNCHANGED <<CronVars, BuilderVars>>

WithMinute == CanCall /\ \E v \in U8 : Called("with_minute", v, with_minute(ci, v))

WithHour == CanCall /\ \E v \in U8 : Called("with_hour", v, with_hour(ci, v))

WithDay == CanCall /\ \E v \in U8 : Called("with_day", v, with_day(ci, v))

WithWeekday == CanCall /\ \E v \in U8 : Called("with_weekday", v, with_weekday(ci, v))

WithMonth == CanCall /\ \E v \in U8 : Called("with_month", v, with_month(ci, v))

SetterNext ==
    \/ WithMinute
    \/ WithHour
    \/ WithDay
    \/ WithWeekday
    \/ WithMonth

SpecSetter == SetterInit /\ [][SetterNext]_vars

----------------------------------------------------------------------------
(* What the specification says of the cron expansion *)

\* the inclusive range the specification gives each field
FieldRange(f) ==
    CASE f = "minute"  -> [lo |-> 0, hi |-> 59]
      [] f = "hour"    -> [lo |-> 0, hi |-> 23]
      [] f = "day"     -> [lo |-> 1, hi |-> 31]
      [] f = "weekday" -> [lo |-> 0, hi |-> 7]
      [] f = "month"   -> [lo |-> 1, hi |-> 12]

InRange(f, v) == FieldRange(f).lo <= v /\ v <= FieldRange(f).hi

ExplicitUnits(s) == { u \in Fields : ~s[u].all }

\* every value of every explicit unit is valid for its field
AllExplicitInRange(s) ==
    \A u \in ExplicitUnits(s) : \A v \in Range(s[u].ords) : InRange(u, v)

\* the values a unit contributes to an interval: its set if explicit, unset
\* if wildcard
UnitValues(s, u) == IF s[u].all THEN {None} ELSE Range(s[u].ords)

\* one interval per element of the Cartesian product of the explicit sets
ProductIntervals(s) ==
    [minute : UnitValues(s, "minute"), hour : UnitValues(s, "hour"),
     day : UnitValues(s, "day"), weekday : UnitValues(s, "weekday"),
     month : UnitValues(s, "month")]

Returned == pc = "done"

\* C1: a schedule whose explicit units (at least one) hold in-range values
\* expands to Ok with exactly one interval per element of the Cartesian
\* product of the explicit sets, all distinct, the wildcard fields unset
\* (two explicit units of two values each: four intervals).
C1_CartesianProduct ==
    (Returned /\ ExplicitUnits(schedule) # {} /\ AllExplicitInRange(schedule))
        => /\ ret.tag = "Ok"
           /\ Len(ret.vec) = Cardinality(ProductIntervals(schedule))
           /\ Range(ret.vec) = ProductIntervals(schedule)

\* C2: a schedule with one explicit unit holding one in-range value v and
\* four wildcard units expands to Ok with exactly one interval, that unit's
\* field v and the four other fields unset.
C2_SingleExplicitUnit ==
    \A u \in Fields :
        (/\ Returned
         /\ ExplicitUnits(schedule) = {u}
         /\ Len(schedule[u].ords) = 1
         /\ InRange(u, schedule[u].ords[1]))
            => ret = ReturnOk(<<[Default EXCEPT ![u] = schedule[u].ords[1]]>>)

AllWildcard(s) == ExplicitUnits(s) = {}

\* C3: a schedule with all five units wildcard expands to Ok with an empty
\* list, whatever the wildcard sets iterate.
C3_AllWildcardEmpty ==
    (Returned /\ AllWildcard(schedule)) => ret = ReturnOk(<<>>)

\* an all-wildcard expansion has returned, its wildcard sets iterating
\* several values, some of them invalid for their fields
C3_Witness ==
    /\ Returned
    /\ AllWildcard(schedule)
    /\ ret.tag = "Ok"
    /\ \E u \in Fields : \E v \in Range(schedule[u].ords) : ~InRange(u, v)
    /\ \E u \in Fields : \A v \in Range(schedule[u].ords) : InRange(u, v)

\* C4: at every point of the expansion, and in the list returned, no
\* interval of the result list has all five fields unset.
C4_NoUninitializedInterval ==
    /\ \A i \in DOMAIN result_vec : result_vec[i] # Default
    /\ ret.tag = "Ok" => \A i \in DOMAIN ret.vec : ret.vec[i] # Default

\* the innermost body has just run without error on an interval that has
\* no field set, and the list did not grow
C4_Witness ==
    /\ pc = "brk"
    /\ lvl = NUnits
    /\ BuildInterval(schedule, Current(1), Current(2), Current(3), Current(4), Current(5))
           = Ok(Default)
    /\ result_vec = <<>>

\* the number of values unit number k of the loop nest is looped over: a
\* wildcard unit once, an explicit unit once per value
Passes(s, k) == IF s[Units[k]].all THEN 1 ELSE Len(s[Units[k]].ords)

\* the combinations of loop positions, one position per unit
Combos(s) == { c \in [1..NUnits -> 1..MaxSetLen] : \A k \in 1..NUnits : c[k] <= Passes(s, k) }

\* c comes before d in nested-iteration order, month outermost
Before(c, d) ==
    \E k \in 1..NUnits : c[k] < d[k] /\ \A j \in 1..(k - 1) : c[j] = d[j]

\* the interval of a combination: the explicit units' values at its positions
IntervalOf(s, c) ==
    [f \in Fields |->
        LET k == CHOOSE j \in 1..NUnits : Units[j] = f
        IN  IF s[f].all THEN None ELSE s[f].ords[c[k]]]

InvalidExplicit(s) ==
    UNION { { <<u, v>> : v \in { w \in Range(s[u].ords) : ~InRange(u, w) } } :
            u \in ExplicitUnits(s) }

\* the expansion has returned on a schedule whose one invalid explicit
\* value is v, of unit u
OnlyInvalid(u, v) == Returned /\ InvalidExplicit(schedule) = {<<u, v>>}

\* C6 as stated: an explicit unit's ordinal above 255 makes the expansion
\* return the invalid-cron-field error carrying the raw ordinal and the
\* unit that produced it, and no list.
C6_ErrorNamesUnit ==
    \A u \in Fields : \A v \in Range(schedule[u].ords) :
        (OnlyInvalid(u, v) /\ v > U8Max)
            => /\ ret.tag = "Err"
               /\ ret.err.kind = "InvalidCronField"
               /\ ret.err.ordinal = v
               /\ "unit" \in DOMAIN ret.err
               /\ ret.err.unit = u
               /\ "vec" \notin DOMAIN ret

\* C6, amended: an explicit unit's ordinal above 255 makes the expansion
\* return the invalid-cron-field error, which carries the raw ordinal and
\* nothing else, and no list; and that error is returned for such an
\* ordinal only.
C6_InvalidCronField ==
    /\ \A u \in Fields : \A v \in Range(schedule[u].ords) :
           (OnlyInvalid(u, v) /\ v > U8Max) => ret = ReturnErr(InvalidCronField(v))
    /\ (Returned /\ ret.tag = "Err" /\ ret.err.kind = "InvalidCronField")
           => /\ ret.err.ordinal > U8Max
              /\ \E u \in ExplicitUnits(schedule) : ret.err.ordinal \in Range(schedule[u].ords)

\* the expansion ran some bodies without error, then met the one invalid
\* value, which does not convert, and returned the error
C6_Witness ==
    /\ Returned
    /\ Cardinality(InvalidExplicit(schedule)) = 1
    /\ ret.tag = "Err"
    /\ ret.err.kind = "InvalidCronField"
    /\ \E k \in 1..NUnits : it[k] > 1

\* C7 as stated: an explicit unit's value that converts but is out of its
\* field's range makes the expansion return the setter's out-of-range
\* error, carrying the range and the value and tagged with the unit.
C7_ErrorTaggedWithUnit ==
    \A u \in Fields : \A v \in Range(schedule[u].ords) :
        (OnlyInvalid(u, v) /\ v <= U8Max)
            => /\ ret.tag = "Err"
               /\ ret.err.kind = "CalendarFieldOutOfBounds"
               /\ ret.err.lo = FieldRange(u).lo
               /\ ret.err.hi = FieldRange(u).hi
               /\ ret.err.value = v
               /\ "unit" \in DOMAIN ret.err
               /\ ret.err.unit = u

\* C7, amended: an explicit unit's value that converts but is out of its
\* field's range makes the expansion return the setter's out-of-range
\* error, which carries the field's range and the value and nothing else;
\* and that error is returned for such a value only.
C7_OutOfBounds ==
    /\ \A u \in Fields : \A v \in Range(schedule[u].ords) :
           (OnlyInvalid(u, v) /\ v <= U8Max)
               => ret = ReturnErr(CalendarFieldOutOfBounds(FieldRange(u).lo, FieldRange(u).hi, v))
    /\ (Returned /\ ret.tag = "Err" /\ ret.err.kind = "CalendarFieldOutOfBounds")
           => \E u \in ExplicitUnits(schedule) :
                  /\ ret.err.value \in Range(schedule[u].ords)
                  /\ ret.err.value <= U8Max
                  /\ ~InRange(u, ret.err.value)
                  /\ ret.err.lo = FieldRange(u).lo
                  /\ ret.err.hi = FieldRange(u).hi

\* the expansion ran some bodies without error, then met the one invalid
\* value, which converts but is out of range, and returned the error
C7_Witness ==
    /\ Returned
    /\ Cardinality(InvalidExplicit(schedule)) = 1
    /\ ret.tag = "Err"
    /\ ret.err.kind = "CalendarFieldOutOfBounds"
    /\ \E k \in 1..NUnits : it[k] > 1

----------------------------------------------------------------------------
(* What the specification says of the setters *)

\* the field a setter is named after
SetterField(name) ==
    CASE name = "with_minute"  -> "minute"
      [] name = "with_hour"    -> "hour"
      [] name = "with_day"     -> "day"
      [] name = "with_weekday" -> "weekday"
      [] name = "with_month"   -> "month"

\* C8: with_minute(v) succeeds for every v in 0..=59, on every interval, and
\* the result's minute is v; for every v in 60..=255 it fails with the
\* out-of-range error of range 0..=59 and value v.
C8_WithMinute ==
    call.setter = "with_minute"
        => /\ call.arg \in 0..59 => call.res.ok /\ call.res.val.minute = call.arg
           /\ call.arg \in 60..255 => call.res = Err(CalendarFieldOutOfBounds(0, 59, call.arg))

\* with_minute(59) has succeeded on an interval whose minute was 30
C8_Witness ==
    /\ call.setter = "with_minute"
    /\ call.arg = 59
    /\ call.self.minute = 30
    /\ call.res.ok

\* C9: with_hour accepts exactly 0..=23, with_day 1..=31, with_weekday
\* 0..=7, with_month 1..=12: inside the range the setter succeeds and the
\* field is the raw value given; outside it the setter fails with the
\* out-of-range error carrying the field's range and the value.
C9_FieldRanges ==
    \A f \in {"hour", "day", "weekday", "month"} :
        (call.setter # "none" /\ SetterField(call.setter) = f)
            => IF InRange(f, call.arg)
               THEN call.res.ok /\ call.res.val[f] = call.arg
               ELSE call.res = Err(CalendarFieldOutOfBounds(FieldRange(f).lo, FieldRange(f).hi, call.arg))

\* with_day(0) has failed
C9_Witness ==
    /\ call.setter = "with_day"
    /\ call.arg = 0
    /\ ~call.res.ok

\* C10: a successful setter changes only the field it names: the four other
\* fields of the result are those of the interval it was called on.
C10_SetterFrame ==
    (call.setter # "none" /\ call.res.ok)
        => \A f \in Fields \ {SetterField(call.setter)} : call.res.val[f] = call.self[f]

\* with_hour has succeeded on an interval with day and month set, minute
\* and weekday unset
C10_Witness ==
    /\ call.setter = "with_hour"
    /\ call.res.ok
    /\ call.self = [Default EXCEPT !.day = 15, !.month = 6]

----------------------------------------------------------------------------
(* Chains of setter calls, the links kept *)

\* the arguments of the links: the ends of every field's range, the values
\* next to them, and the ends of u8
ChainArgs == {0, 1, 7, 8, 12, 13, 23, 24, 31, 32, 59, 60, U8Max}

ChainInit ==
    /\ ci \in Receivers
    /\ call = NoCall
    /\ calls = 0
    /\ hist = <<>>
    /\ pc = "setter"
    /\ schedule = <<>>
    /\ it = <<>>
    /\ lvl = 0
    /\ result_vec = <<>>
    /\ ret = Pending
    /\ runs = 0
    /\ launchd = <<>>
    /\ options = <<>>
    /\ document = <<>>

\* the chain has not failed and takes another link
ChainCanCall == pc = "setter" /\ calls < MaxChain

\* one link `.with_<field>(arg)` (or `.and_then(|ci| ci.with_<field>(arg))`)
\* of a chain whose value so far is Ok(ci)
ChainCalled(name, arg, res) ==
    /\ call' = [setter |-> name, self |-> ci, arg |-> arg, res |-> res]
    /\ hist' = Append(hist, call')
    /\ calls' = calls + 1
    /\ ci' = IF res.ok THEN res.val ELSE ci
    /\ pc' = IF res.ok THEN "setter" ELSE "failed"
    /\ UNCHANGED <<CronVars, launchd, options, document>>

ChainMinute == ChainCanCall /\ \E v \in ChainArgs : ChainCalled("with_minute", v, with_minute(ci, v))

ChainHour == ChainCanCall /\ \E v \in ChainArgs : ChainCalled("with_hour", v, with_hour(ci, v))

ChainDay == ChainCanCall /\ \E v \in ChainArgs : ChainCalled("with_day", v, with_day(ci, v))

ChainWeekday == ChainCanCall /\ \E v \in ChainArgs : ChainCalled("with_weekday", v, with_weekday(ci, v))

ChainMonth == ChainCanCall /\ \E v \in ChainArgs : ChainCalled("with_month", v, with_month(ci, v))

\* a link `.and_then(|ci| ci.with_<field>(arg))` of a chain whose value so
\* far is an Err: the setter is not called, the Err goes on
AndThenOnErr ==
    /\ pc = "failed"
    /\ calls < MaxChain
    /\ calls' = calls + 1
    /\ UNCHANGED <<ci, call, hist, pc, CronVars, launchd, options, document>>

\* the value of the chain so far
ChainResult == IF pc = "failed" THEN call.res ELSE Ok(ci)

ChainNext ==
    \/ ChainMinute
    \/ ChainHour
    \/ ChainDay
    \/ ChainWeekday
    \/ ChainMonth
    \/ AndThenOnErr

SpecChain == ChainInit /\ [][ChainNext]_vars

----------------------------------------------------------------------------
(* What the specification says of chains of setters *)

\* the setter of a name, called
ApplySetter(name, self, v) ==
    CASE name = "with_minute"  -> with_minute(self, v)
      [] name = "with_hour"    -> with_hour(self, v)
      [] name = "with_day"     -> with_day(self, v)
      [] name = "with_weekday" -> with_weekday(self, v)
      [] name = "with_month"   -> with_month(self, v)

\* links i and i+1 of the chain were both given in-range values
BothInRange(i) ==
    /\ InRange(SetterField(hist[i].setter), hist[i].arg)
    /\ InRange(SetterField(hist[i + 1].setter), hist[i + 1].arg)

\* C11: the same setter called twice, with in-range values a then b,
\* succeeds both times and yields the interval that calling it once with b
\* yields.
C11_LastWriteWins ==
    \A i \in 1..(Len(hist) - 1) :
        (hist[i].setter = hist[i + 1].setter /\ BothInRange(i))
            => /\ hist[i].res.ok
               /\ hist[i + 1].res.ok
               /\ ApplySetter(hist[i].setter, hist[i].self, hist[i + 1].arg).ok
               /\ hist[i + 1].res.val
                      = ApplySetter(hist[i].setter, hist[i].self, hist[i + 1].arg).val

\* with_month(1) then with_month(12) on an interval whose month was unset
C11_Witness ==
    /\ Len(hist) = 2
    /\ hist[1].setter = "with_month" /\ hist[1].arg = 1 /\ hist[1].self.month = None
    /\ hist[2].setter = "with_month" /\ hist[2].arg = 12
    /\ hist[2].res.ok

\* C12: two setters of different fields, with in-range values, give the
\* same interval in either order.
C12_SettersCommute ==
    \A i \in 1..(Len(hist) - 1) :
        (hist[i].setter # hist[i + 1].setter /\ BothInRange(i))
            => LET first == ApplySetter(hist[i + 1].setter, hist[i].self, hist[i + 1].arg)
               IN  /\ hist[i + 1].res.ok
                   /\ first.ok
                   /\ ApplySetter(hist[i].setter, first.val, hist[i].arg).ok
                   /\ ApplySetter(hist[i].setter, first.val, hist[i].arg).val
                          = hist[i + 1].res.val

\* with_weekday then with_day on an interval with minute set
C12_Witness ==
    /\ Len(hist) = 2
    /\ hist[1].setter = "with_weekday" /\ hist[1].self = [Default EXCEPT !.minute = 30]
    /\ hist[2].setter = "with_day"
    /\ hist[2].res.ok

\* C13: is_initialized() is false on new(), true after any successful
\* setter call, and after any chain true iff some field is set.
C13_IsInitialized ==
    /\ ~is_initialized(new)
    /\ ci = Default => ~is_initialized(ci)
    /\ is_initialized(ci) <=> \E f \in Fields : ci[f] # None
    /\ \A i \in DOMAIN hist : hist[i].res.ok => is_initialized(hist[i].res.val)

\* one successful call of with_month on the default interval
C13_Witness ==
    /\ Len(hist) = 1
    /\ hist[1].self = Default
    /\ hist[1].setter = "with_month"
    /\ hist[1].res.ok
    /\ is_initialized(ci)

\* C14: a setter given an out-of-range value returns the error and no
\* interval; in a chain the first failure is the last call made and the
\* value of the whole chain, whatever links follow it.
C14_FirstFailureIsFinal ==
    /\ \A i \in DOMAIN hist :
           ~InRange(SetterField(hist[i].setter), hist[i].arg)
               => /\ hist[i].res = Err(CalendarFieldOutOfBounds(
                                           FieldRange(SetterField(hist[i].setter)).lo,
                                           FieldRange(SetterField(hist[i].setter)).hi,
                                           hist[i].arg))
                  /\ i = Len(hist)
                  /\ ChainResult = hist[i].res
    /\ \A i \in DOMAIN hist : ~hist[i].res.ok => i = Len(hist) /\ ChainResult = hist[i].res

\* with_day(32) failed as the first link and another link followed
C14_Witness ==
    /\ Len(hist) = 1
    /\ hist[1].setter = "with_day" /\ hist[1].arg = 32
    /\ ~hist[1].res.ok
    /\ calls = 2
    /\ ChainResult = hist[1].res

----------------------------------------------------------------------------
(* SpecDecode: the derived Deserialize of CalendarInterval                  *)

\* a dictionary entry of a document: <<>> when the key is absent, <<v>> when
\* the key holds the integer v
Absent == <<>>

Present(v) == <<v>>

\* #[serde(rename_all = "PascalCase")]: the key each field is read from
Key(f) ==
    CASE f = "minute"  -> "Minute"
      [] f = "hour"    -> "Hour"
      [] f = "day"     -> "Day"
      [] f = "weekday" -> "Weekday"
      [] f = "month"   -> "Month"

Keys == { Key(f) : f \in Fields }

\* integers a document holds under a key: below u8, inside every field's
\* range, outside some ranges, the largest u8, and beyond u8
DocInts == {0 - 1, 1, 60, U8Max, U8Max + 1}

Documents == [Keys -> {Absent} \cup { Present(v) : v \in DocInts }]

\* the codec's error for an integer that is no u8
InvalidValue == [kind |-> "Deserialize"]

\* Option<u8>: an absent key gives None, an integer that fits u8 gives
\* Some(v) whatever the field's range is
deserialize_field(doc, f) ==
    IF doc[Key(f)] = Absent THEN None ELSE doc[Key(f)][1]

\* derive(Deserialize): every field is read with its type's decoder, and no
\* setter is called
deserialize(doc) ==
    IF \E k \in Keys : doc[k] # Absent /\ doc[k][1] \notin U8
    THEN Err(InvalidValue)
    ELSE Ok([f \in Fields |-> deserialize_field(doc, f)])

DecodeInit ==
    /\ pc = "decode"
    /\ ci = Default
    /\ call = NoCall
    /\ calls = 0
    /\ hist = <<>>
    /\ launchd = <<>>
    /\ options = <<>>
    /\ document = <<>>
    /\ schedule = <<>>
    /\ it = <<>>
    /\ lvl = 0
    /\ result_vec = <<>>
    /\ ret = Pending
    /\ runs = 0

\* one document is decoded
Deserialize ==
    /\ pc = "decode"
    /\ \E doc \in Documents :
           /\ call' = [setter |-> "deserialize", self |-> Default, arg |-> doc,
                       res |-> deserialize(doc)]
           /\ ci' = IF deserialize(doc).ok THEN deserialize(doc).val ELSE ci
    /\ pc' = "decoded"
    /\ calls' = calls + 1
    /\ UNCHANGED <<CronVars, BuilderVars>>

DecodeNext == Deserialize

SpecDecode == DecodeInit /\ [][DecodeNext]_vars

\* C15: every CalendarInterval the library produced (the interval held, the
\* value of the last call, every interval the expansion returned) has each
\* field unset or within the field's range.
C15_FieldsInRange ==
    /\ \A f \in Fields : ci[f] = None \/ InRange(f, ci[f])
    /\ call.res.ok => \A f \in Fields : call.res.val[f] = None \/ InRange(f, call.res.val[f])
    /\ \A i \in DOMAIN result_vec :
           \A f \in Fields : result_vec[i][f] = None \/ InRange(f, result_vec[i][f])

----------------------------------------------------------------------------
(* Launchd: the descriptor and its builder                                  *)

\* most with_socket calls of a chain
MaxSocketCalls == 2

\* longest list a with_socket call is given
MaxArrayLen == 2

\* Option<T>: None is the empty tuple, Some(v) the one-element tuple
Unset == <<>>

Some(v) == <<v>>

LaunchdFields ==
    {"label", "disabled", "user_name", "group_name", "inetd_compatibility",
     "limit_load_to_hosts", "limit_load_from_hosts", "limit_load_to_session_type",
     "limit_load_to_hardware", "limit_load_from_hardware", "program",
     "bundle_program", "program_arguments", "enable_globbing",
     "enable_transactions", "enable_pressured_exit", "on_demand", "service_ipc",
     "keep_alive", "run_at_load", "root_directory", "working_directory",
     "environment_variables", "umask", "time_out", "exit_time_out",
     "throttle_interval", "init_groups", "watch_paths", "queue_directories",
     "start_on_mount", "start_interval", "start_calendar_intervals",
     "standard_in_path", "standard_out_path", "standard_error_path", "debug",
     "wait_for_debugger", "soft_resource_limits", "hard_resource_limits", "nice",
     "process_type", "abandon_process_group", "low_priority_io",
     "low_priority_background_io", "materialize_dataless_files",
     "launch_only_once", "mach_services", "sockets", "launch_events",
     "hopefully_exits_last", "hopefully_exits_first", "session_create",
     "legacy_timers"}

\* derive(Default): the label is the empty string, every Option is None
Launchd_default == [f \in LaunchdFields |-> IF f = "label" THEN "" ELSE Unset]

Launchd_new_no_program(label, program) ==
    [Launchd_default EXCEPT !["label"] = label]

Launchd_new(label, program) ==
    [Launchd_default EXCEPT !["label"] = label, !["program"] = Some(program)]

\* enum Sockets
Dictionary(dict) == [kind |-> "Dictionary", dict |-> dict]

Array(arr) == [kind |-> "Array", arr |-> arr]

\* HashMap<String, SocketOptions> values: two that collide on their key,
\* one with another key
SocketRecords == { "http" :> 1, "http" :> 2, "ssh" :> 1 }

RECURSIVE SeqsUpTo(_, _)
SeqsUpTo(S, n) ==
    IF n = 0 THEN { <<>> }
    ELSE SeqsUpTo(S, n - 1)
         \cup { Append(q, x) : q \in { r \in SeqsUpTo(S, n - 1) : Len(r) = n - 1 }, x \in S }

SocketArrays == SeqsUpTo(SocketRecords, MaxArrayLen)

\* vec.insert(0, x)
Insert0(vec, x) == <<x>> \o vec

with_socket_wraps_first(self, socket) ==
    IF self.sockets # Unset
    THEN LET sockets == self.sockets[1]
         IN  CASE sockets.kind = "Array" /\ socket.kind = "Array" ->
                      [self EXCEPT !["sockets"] = Some(Array(sockets.arr \o socket.arr))]
               [] sockets.kind = "Array" /\ socket.kind = "Dictionary" ->
                      [self EXCEPT !["sockets"] = Some(Array(Append(sockets.arr, socket.dict)))]
               [] sockets.kind = "Dictionary" /\ socket.kind = "Dictionary" ->
                      [self EXCEPT !["sockets"] = Some(Array(<<sockets.dict, socket.dict>>))]
               [] sockets.kind = "Dictionary" /\ socket.kind = "Array" ->
                      [self EXCEPT !["sockets"] = Some(Array(Insert0(socket.arr, sockets.dict)))]
    ELSE [self EXCEPT !["sockets"] =
              Some(IF socket.kind = "Dictionary" THEN Array(<<socket.dict>>) ELSE socket)]

with_socket_insert_at_head(self, socket) ==
    IF self.sockets # Unset
    THEN LET sockets == self.sockets[1]
         IN  CASE sockets.kind = "Array" /\ socket.kind = "Array" ->
                      [self EXCEPT !["sockets"] = Some(Array(sockets.arr \o socket.arr))]
               [] sockets.kind = "Array" /\ socket.kind = "Dictionary" ->
                      [self EXCEPT !["sockets"] = Some(Array(Insert0(sockets.arr, socket.dict)))]
               [] sockets.kind = "Dictionary" /\ socket.kind = "Dictionary" ->
                      [self EXCEPT !["sockets"] = Some(Array(<<sockets.dict, socket.dict>>))]
               [] sockets.kind = "Dictionary" /\ socket.kind = "Array" ->
                      [self EXCEPT !["sockets"] = Some(Array(Insert0(socket.arr, sockets.dict)))]
    ELSE [self EXCEPT !["sockets"] = Some(socket)]

with_socket_record_last(self, socket) ==
    IF self.sockets # Unset
    THEN LET sockets == self.sockets[1]
         IN  CASE sockets.kind = "Array" /\ socket.kind = "Array" ->
                      [self EXCEPT !["sockets"] = Some(Array(sockets.arr \o socket.arr))]
               [] sockets.kind = "Array" /\ socket.kind = "Dictionary" ->
                      [self EXCEPT !["sockets"] = Some(Array(Append(sockets.arr, socket.dict)))]
               [] sockets.kind = "Dictionary" /\ socket.kind = "Dictionary" ->
                      [self EXCEPT !["sockets"] = Some(Array(<<sockets.dict, socket.dict>>))]
               [] sockets.kind = "Dictionary" /\ socket.kind = "Array" ->
                      [self EXCEPT !["sockets"] = Some(Array(Append(socket.arr, sockets.dict)))]
    ELSE [self EXCEPT !["sockets"] = Some(socket)]

\* a plain setter: the argument replaces what was stored
with_socket_replaces(self, socket) == [self EXCEPT !["sockets"] = Some(socket)]

\* Launchd::with_socket: the match on (existing, new) when sockets is Some,
\* the plain assignment when it is None
with_socket(self, socket) ==
    IF self.sockets # Unset
    THEN LET sockets == self.sockets[1]
         IN  CASE sockets.kind = "Array" /\ socket.kind = "Array" ->
                      [self EXCEPT !["sockets"] = Some(Array(sockets.arr \o socket.arr))]
               [] sockets.kind = "Array" /\ socket.kind = "Dictionary" ->
                      [self EXCEPT !["sockets"] = Some(Array(Append(sockets.arr, socket.dict)))]
               [] sockets.kind = "Dictionary" /\ socket.kind = "Dictionary" ->
                      [self EXCEPT !["sockets"] = Some(Array(<<sockets.dict, socket.dict>>))]
               [] sockets.kind = "Dictionary" /\ socket.kind = "Array" ->
                      [self EXCEPT !["sockets"] = Some(Array(Insert0(socket.arr, sockets.dict)))]
    ELSE [self EXCEPT !["sockets"] = Some(socket)]

----------------------------------------------------------------------------
(* SpecSocket: chains of with_socket on Launchd::new(..)                    *)

SocketInit ==
    /\ pc = "builder"
    /\ launchd = Launchd_new("Label", "./henk.sh")
    /\ hist = <<>>
    /\ calls = 0
    /\ call = NoCall
    /\ ci = Default
    /\ options = <<>>
    /\ document = <<>>
    /\ schedule = <<>>
    /\ it = <<>>
    /\ lvl = 0
    /\ result_vec = <<>>
    /\ ret = Pending
    /\ runs = 0

SocketCalled(socket) ==
    /\ launchd' = with_socket(launchd, socket)
    /\ hist' = Append(hist, [setter |-> "with_socket", self |-> launchd,
                             arg |-> socket, res |-> launchd'])
    /\ calls' = calls + 1
    /\ UNCHANGED <<pc, ci, call, options, document, CronVars>>

WithSocketDictionary ==
    /\ pc = "builder" /\ calls < MaxSocketCalls
    /\ \E dict \in SocketRecords : SocketCalled(Dictionary(dict))

WithSocketArray ==
    /\ pc = "builder" /\ calls < MaxSocketCalls
    /\ \E arr \in SocketArrays : SocketCalled(Array(arr))

SocketNext ==
    \/ WithSocketDictionary
    \/ WithSocketArray

SpecSocket == SocketInit /\ [][SocketNext]_vars

----------------------------------------------------------------------------
(* The with_<field> setters and the zero-argument flag setters of Launchd   *)

\* most setter calls made on one receiver
MaxBuilderCalls == 1

\* the setters that take a value, with_socket apart
WithSetters ==
    {"with_label", "with_disabled", "with_user_name", "with_group_name",
     "with_program", "with_bundle_program", "with_program_arguments",
     "with_run_at_load", "with_queue_directories", "with_watch_paths",
     "with_start_on_mount", "with_start_interval",
     "with_start_calendar_intervals", "with_abandon_process_group",
     "with_debug", "with_enable_globbing", "with_enable_transactions",
     "with_enable_pressured_exit", "with_environment_variables",
     "with_exit_timeout", "with_init_groups", "with_launch_only_once",
     "with_limit_load_from_hosts", "with_limit_to_from_hosts",
     "with_limit_load_to_session_type", "with_limit_load_to_hardware",
     "with_limit_load_from_hardware", "with_low_priority_io",
     "with_low_priority_background_io", "with_mach_services", "with_nice",
     "with_root_directory", "with_standard_error_path",
     "with_standard_in_path", "with_standard_out_path",
     "with_throttle_interval", "with_timeout", "with_umask",
     "with_wait_for_debugger", "with_materialize_dataless_files",
     "with_working_directory", "with_inetd_compatibility",
     "with_keep_alive", "with_process_type", "with_hard_resource_limits",
     "with_soft_resource_limits", "with_launch_events",
     "with_session_create"}

\* the setters whose parameter is a bool
BoolSetters ==
    {"with_disabled", "with_run_at_load", "with_start_on_mount",
     "with_abandon_process_group", "with_debug", "with_enable_globbing",
     "with_enable_transactions", "with_enable_pressured_exit",
     "with_init_groups", "with_launch_only_once", "with_low_priority_io",
     "with_low_priority_background_io", "with_wait_for_debugger",
     "with_materialize_dataless_files", "with_inetd_compatibility",
     "with_session_create"}

\* the setters whose parameter is an integer (u16, u32, i32)
IntSetters ==
    {"with_start_interval", "with_exit_timeout", "with_nice",
     "with_throttle_interval", "with_timeout", "with_umask"}

\* the field the body of each setter assigns
Assigns(name) ==
    CASE name = "with_label" -> "label"
      [] name = "with_disabled" -> "disabled"
      [] name = "with_user_name" -> "user_name"
      [] name = "with_group_name" -> "group_name"
      [] name = "with_program" -> "program"
      [] name = "with_bundle_program" -> "bundle_program"
      [] name = "with_program_arguments" -> "program_arguments"
      [] name = "with_run_at_load" -> "run_at_load"
      [] name = "with_queue_directories" -> "queue_directories"
      [] name = "with_watch_paths" -> "watch_paths"
      [] name = "with_start_on_mount" -> "start_on_mount"
      [] name = "with_start_interval" -> "start_interval"
      [] name = "with_start_calendar_intervals" -> "start_calendar_intervals"
      [] name = "with_abandon_process_group" -> "abandon_process_group"
      [] name = "with_debug" -> "debug"
      [] name = "with_enable_globbing" -> "enable_globbing"
      [] name = "with_enable_transactions" -> "enable_transactions"
      [] name = "with_enable_pressured_exit" -> "enable_pressured_exit"
      [] name = "with_environment_variables" -> "environment_variables"
      [] name = "with_exit_timeout" -> "exit_time_out"
      [] name = "with_init_groups" -> "init_groups"
      [] name = "with_launch_only_once" -> "launch_only_once"
      [] name = "with_limit_load_from_hosts" -> "limit_load_from_hosts"
      [] name = "with_limit_to_from_hosts" -> "limit_load_to_hosts"
      [] name = "with_limit_load_to_session_type" -> "limit_load_to_session_type"
      [] name = "with_limit_load_to_hardware" -> "limit_load_to_hardware"
      [] name = "with_limit_load_from_hardware" -> "limit_load_from_hardware"
      [] name = "with_low_priority_io" -> "low_priority_io"
      [] name = "with_low_priority_background_io" -> "low_priority_background_io"
      [] name = "with_mach_services" -> "mach_services"
      [] name = "with_nice" -> "nice"
      [] name = "with_root_directory" -> "root_directory"
      [] name = "with_standard_error_path" -> "standard_error_path"
      [] name = "with_standard_in_path" -> "standard_in_path"
      [] name = "with_standard_out_path" -> "standard_out_path"
      [] name = "with_throttle_interval" -> "throttle_interval"
      [] name = "with_timeout" -> "time_out"
      [] name = "with_umask" -> "umask"
      [] name = "with_wait_for_debugger" -> "wait_for_debugger"
      [] name = "with_materialize_dataless_files" -> "materialize_dataless_files"
      [] name = "with_working_directory" -> "working_directory"
      [] name = "with_inetd_compatibility" -> "inetd_compatibility"
      [] name = "with_keep_alive" -> "keep_alive"
      [] name = "with_process_type" -> "process_type"
      [] name = "with_hard_resource_limits" -> "hard_resource_limits"
      [] name = "with_soft_resource_limits" -> "soft_resource_limits"
      [] name = "with_launch_events" -> "launch_events"
      [] name = "with_session_create" -> "session_create"

with_field_fresh(name, self, value) ==
    CASE name = "with_label" -> [self EXCEPT !["label"] = value]
      [] name = "with_inetd_compatibility" ->
             [self EXCEPT !["inetd_compatibility"] = Some("Wait" :> value)]
      [] OTHER -> [Launchd_default EXCEPT ![Assigns(name)] = Some(value)]

\* with_limit_to_from_hosts assigning the field its name begins with
with_field_from_hosts(name, self, value) ==
    CASE name = "with_label" -> [self EXCEPT !["label"] = value]
      [] name = "with_inetd_compatibility" ->
             [self EXCEPT !["inetd_compatibility"] = Some("Wait" :> value)]
      [] name = "with_limit_to_from_hosts" ->
             [self EXCEPT !["limit_load_from_hosts"] = Some(value)]
      [] OTHER -> [self EXCEPT ![Assigns(name)] = Some(value)]

\* with_<field>(mut self, value): self.<field> = Some(value); self.
\* with_label assigns the String itself, with_inetd_compatibility the map
\* HashMap::from([(InetdCompatibility::Wait, wait)])
with_field(name, self, value) ==
    CASE name = "with_label" -> [self EXCEPT !["label"] = value]
      [] name = "with_inetd_compatibility" ->
             [self EXCEPT !["inetd_compatibility"] = Some("Wait" :> value)]
      [] OTHER -> [self EXCEPT ![Assigns(name)] = Some(value)]

\* the zero-argument setters
FlagSetters ==
    {"disabled", "run_at_load", "start_on_mount", "abandon_process_group",
     "debug", "enable_globbing", "enable_transactions",
     "enable_pressured_exit", "init_groups", "launch_only_once",
     "low_priority_io", "low_priority_background_io", "wait_for_debugger",
     "materialize_dataless_files", "session_create"}

\* the setter the body of each zero-argument setter calls with true
Delegate(name) ==
    CASE name = "disabled" -> "with_disabled"
      [] name = "run_at_load" -> "with_run_at_load"
      [] name = "start_on_mount" -> "with_start_on_mount"
      [] name = "abandon_process_group" -> "with_abandon_process_group"
      [] name = "debug" -> "with_debug"
      [] name = "enable_globbing" -> "with_enable_globbing"
      [] name = "enable_transactions" -> "with_enable_transactions"
      [] name = "enable_pressured_exit" -> "with_enable_pressured_exit"
      [] name = "init_groups" -> "with_init_groups"
      [] name = "launch_only_once" -> "with_launch_only_once"
      [] name = "low_priority_io" -> "with_low_priority_io"
      [] name = "low_priority_background_io" -> "with_low_priority_background_io"
      [] name = "wait_for_debugger" -> "with_wait_for_debugger"
      [] name = "materialize_dataless_files" -> "with_materialize_dataless_files"
      [] name = "session_create" -> "with_session_create"

\* <flag>(self): self.with_<flag>(true)
flag(name, self) == with_field(Delegate(name), self, TRUE)

\* MachServiceOptions and its setters
MachServiceOptions_new == [reset_at_close |-> Unset, hide_until_check_in |-> Unset]

with_reset_at_close(self, value) == [self EXCEPT !.reset_at_close = Some(value)]

reset_at_close(self) == with_reset_at_close(self, TRUE)

with_hide_until_check_in(self, value) == [self EXCEPT !.hide_until_check_in = Some(value)]

hide_until_check_in(self) == with_hide_until_check_in(self, TRUE)

\* values a setter is given: both booleans, two integers, or two values of
\* the parameter's type (the setters do not look into them)
ArgsOf(name) ==
    IF name \in BoolSetters THEN BOOLEAN
    ELSE IF name \in IntSetters THEN {0, 1}
    ELSE {"a", "b"}

Labels == {"Label", "Other"}

Programs == {"./henk.sh", "/bin/sh"}

\* a chain that calls each setter of names with b, in some order
RECURSIVE WithAll(_, _, _)
WithAll(self, names, b) ==
    IF names = {} THEN self
    ELSE LET n == CHOOSE x \in names : TRUE
         IN  WithAll(with_field(n, self, b), names \ {n}, b)

----------------------------------------------------------------------------
(* SpecLaunchd: Launchd::new, then setters of Launchd or MachServiceOptions *)

LaunchdInit ==
    /\ pc = "start"
    /\ launchd = <<>>
    /\ options = <<>>
    /\ document = <<>>
    /\ call = NoCall
    /\ calls = 0
    /\ hist = <<>>
    /\ ci = Default
    /\ schedule = <<>>
    /\ it = <<>>
    /\ lvl = 0
    /\ result_vec = <<>>
    /\ ret = Pending
    /\ runs = 0

\* Launchd::new(label, program) and MachServiceOptions::new()
New ==
    /\ pc = "start"
    /\ \E label \in Labels, program \in Programs :
           /\ launchd' = Launchd_new(label, program)
           /\ call' = [setter |-> "new", self |-> <<>>, arg |-> <<label, program>>,
                       res |-> launchd']
    /\ options' = MachServiceOptions_new
    /\ pc' = "built"
    /\ UNCHANGED <<calls, hist, ci, document, CronVars>>

\* the flags are given a first value: .with_disabled(b).with_run_at_load(b)
\* and so on through the bool setters, on both builders
WithFlags ==
    /\ pc = "built" /\ calls = 0
    /\ \E b \in BOOLEAN :
           /\ launchd' = WithAll(launchd, BoolSetters, b)
           /\ options' = with_hide_until_check_in(with_reset_at_close(options, b), b)
    /\ pc' = "builder"
    /\ UNCHANGED <<call, calls, hist, ci, document, CronVars>>

BuilderCanCall == pc \in {"built", "builder"} /\ calls < MaxBuilderCalls

BuilderCalled(name, self, arg, res) ==
    /\ call' = [setter |-> name, self |-> self, arg |-> arg, res |-> res]
    /\ calls' = calls + 1
    /\ pc' = "builder"
    /\ UNCHANGED <<hist, ci, document, CronVars>>

\* launchd.with_<field>(value)
With ==
    /\ BuilderCanCall
    /\ \E name \in WithSetters : \E value \in ArgsOf(name) :
           /\ launchd' = with_field(name, launchd, value)
           /\ BuilderCalled(name, launchd, value, launchd')
    /\ UNCHANGED options

\* launchd.<flag>()
Flag ==
    /\ BuilderCanCall
    /\ \E name \in FlagSetters :
           /\ launchd' = flag(name, launchd)
           /\ BuilderCalled(name, launchd, TRUE, launchd')
    /\ UNCHANGED options

WithResetAtClose ==
    /\ BuilderCanCall
    /\ \E value \in BOOLEAN :
           /\ options' = with_reset_at_close(options, value)
           /\ BuilderCalled("MachServiceOptions::with_reset_at_close", options, value, options')
    /\ UNCHANGED launchd

ResetAtClose ==
    /\ BuilderCanCall
    /\ options' = reset_at_close(options)
    /\ BuilderCalled("MachServiceOptions::reset_at_close", options, TRUE, options')
    /\ UNCHANGED launchd

WithHideUntilCheckIn ==
    /\ BuilderCanCall
    /\ \E value \in BOOLEAN :
           /\ options' = with_hide_until_check_in(options, value)
           /\ BuilderCalled("MachServiceOptions::with_hide_until_check_in", options, value,
                            options')
    /\ UNCHANGED launchd

HideUntilCheckIn ==
    /\ BuilderCanCall
    /\ options' = hide_until_check_in(options)
    /\ BuilderCalled("MachServiceOptions::hide_until_check_in", options, TRUE, options')
    /\ UNCHANGED launchd

LaunchdNext ==
    \/ New
    \/ WithFlags
    \/ With
    \/ Flag
    \/ WithResetAtClose
    \/ ResetAtClose
    \/ WithHideUntilCheckIn
    \/ HideUntilCheckIn

SpecLaunchd == LaunchdInit /\ [][LaunchdNext]_vars

----------------------------------------------------------------------------
(* SpecHosts: chains of the host-list and timeout setters on Launchd::new   *)

\* most calls of a chain
MaxHostCalls == 3

HostsInit ==
    /\ pc = "builder"
    /\ launchd = Launchd_new("Label", "./henk.sh")
    /\ hist = <<>>
    /\ calls = 0
    /\ call = NoCall
    /\ ci = Default
    /\ options = <<>>
    /\ document = <<>>
    /\ schedule = <<>>
    /\ it = <<>>
    /\ lvl = 0
    /\ result_vec = <<>>
    /\ ret = Pending
    /\ runs = 0

HostsCanCall == pc = "builder" /\ calls < MaxHostCalls

\* launchd.<name>(value), kept in the chain
HostsCalled(name, value) ==
    /\ launchd' = with_field(name, launchd, value)
    /\ hist' = Append(hist, [setter |-> name, self |-> launchd,
                             arg |-> value, res |-> launchd'])
    /\ calls' = calls + 1
    /\ UNCHANGED <<pc, ci, call, options, document, CronVars>>

WithLimitLoadFromHosts ==
    /\ HostsCanCall
    /\ \E value \in ArgsOf("with_limit_load_from_hosts") :
           HostsCalled("with_limit_load_from_hosts", value)

WithLimitToFromHosts ==
    /\ HostsCanCall
    /\ \E value \in ArgsOf("with_limit_to_from_hosts") :
           HostsCalled("with_limit_to_from_hosts", value)

WithTimeout ==
    /\ HostsCanCall
    /\ \E timeout \in ArgsOf("with_timeout") : HostsCalled("with_timeout", timeout)

WithExitTimeout ==
    /\ HostsCanCall
    /\ \E timeout \in ArgsOf("with_exit_timeout") : HostsCalled("with_exit_timeout", timeout)

HostsNext ==
    \/ WithLimitLoadFromHosts
    \/ WithLimitToFromHosts
    \/ WithTimeout
    \/ WithExitTimeout

SpecHosts == HostsInit /\ [][HostsNext]_vars

----------------------------------------------------------------------------
(* Claims about with_socket                                                 *)

\* the i-th call of the chain found sockets holding v
Existing(i, v) == hist[i].self.sockets = Some(v)

\* C16: with_socket(record) on a Launchd without sockets stores the record
\* itself, not a one-element list; a following with_socket(record2) stores
\* the list [record, record2], both entries kept, also when their keys
\* collide.
C16_RecordThenRecord ==
    \A i \in DOMAIN hist :
        (hist[i].self.sockets = Unset /\ hist[i].arg.kind = "Dictionary")
            => /\ hist[i].res.sockets = Some(Dictionary(hist[i].arg.dict))
               /\ (i + 1 \in DOMAIN hist /\ hist[i + 1].arg.kind = "Dictionary")
                      => /\ hist[i + 1].res.sockets
                                = Some(Array(<<hist[i].arg.dict, hist[i + 1].arg.dict>>))
                         /\ Len(hist[i + 1].res.sockets[1].arr) = 2

\* two records with the same key were added to a Launchd without sockets
C16_Witness ==
    /\ Len(hist) = 2
    /\ hist[1].self.sockets = Unset
    /\ hist[1].arg = Dictionary("http" :> 1)
    /\ hist[2].arg = Dictionary("http" :> 2)
    /\ launchd.sockets = Some(Array(<<"http" :> 1, "http" :> 2>>))

\* C17 as stated: a record added to an existing list becomes the first
\* element of the list, the previous elements following in their order.
C17_RecordAtHead ==
    \A i \in DOMAIN hist :
        (hist[i].self.sockets # Unset /\ hist[i].self.sockets[1].kind = "Array"
           /\ hist[i].arg.kind = "Dictionary")
            => hist[i].res.sockets
                   = Some(Array(<<hist[i].arg.dict>> \o hist[i].self.sockets[1].arr))

\* C17, amended: a record added to an existing list becomes the last
\* element of the list, after the previous elements in their order.
C17_RecordAtEnd ==
    \A i \in DOMAIN hist :
        (hist[i].self.sockets # Unset /\ hist[i].self.sockets[1].kind = "Array"
           /\ hist[i].arg.kind = "Dictionary")
            => hist[i].res.sockets
                   = Some(Array(hist[i].self.sockets[1].arr \o <<hist[i].arg.dict>>))

\* a record was added to a list of two other records
C17_Witness ==
    /\ Len(hist) = 2
    /\ Existing(2, Array(<<"http" :> 1, "ssh" :> 1>>))
    /\ hist[2].arg = Dictionary("http" :> 2)
    /\ launchd.sockets = Some(Array(<<"http" :> 1, "ssh" :> 1, "http" :> 2>>))

\* C18: with_socket with a list keeps insertion order: an existing list is
\* followed by the new entries, an existing record comes first and the new
\* entries follow; no entry is dropped or duplicated.
C18_ListArgument ==
    \A i \in DOMAIN hist :
        (hist[i].self.sockets # Unset /\ hist[i].arg.kind = "Array")
            => LET old == hist[i].self.sockets[1]
                   flat == IF old.kind = "Array" THEN old.arr ELSE <<old.dict>>
                   stored == hist[i].res.sockets[1]
               IN  /\ stored.kind = "Array"
                   /\ Len(stored.arr) = Len(flat) + Len(hist[i].arg.arr)
                   /\ \A k \in 1..Len(flat) : stored.arr[k] = flat[k]
                   /\ \A k \in 1..Len(hist[i].arg.arr) :
                          stored.arr[Len(flat) + k] = hist[i].arg.arr[k]

\* a list of two records was added to a single record
C18_Witness ==
    /\ Len(hist) = 2
    /\ Existing(2, Dictionary("ssh" :> 1))
    /\ hist[2].arg = Array(<<"http" :> 1, "http" :> 2>>)
    /\ launchd.sockets = Some(Array(<<"ssh" :> 1, "http" :> 1, "http" :> 2>>))

----------------------------------------------------------------------------
(* Claims about Launchd::new and the setters                                *)

\* C19: Launchd::new(label, program) has the given label, the given
\* program, and every other field unset.
C19_New ==
    call.setter = "new"
        => /\ call.res.label = call.arg[1]
           /\ call.res.program = Some(call.arg[2])
           /\ \A f \in LaunchdFields \ {"label", "program"} : call.res[f] = Unset

\* Launchd::new("Label", "./henk.sh") was called
C19_Witness ==
    /\ call.setter = "new"
    /\ call.arg = <<"Label", "./henk.sh">>
    /\ launchd = call.res
    /\ pc = "built"

\* the field the name of each setter denotes: with_<field> denotes <field>;
\* with_limit_to_from_hosts, with_timeout and with_exit_timeout denote
\* limit_load_to_hosts, time_out and exit_time_out
Denotes(name) ==
    CASE name = "with_label" -> "label"
      [] name = "with_disabled" -> "disabled"
      [] name = "with_user_name" -> "user_name"
      [] name = "with_group_name" -> "group_name"
      [] name = "with_program" -> "program"
      [] name = "with_bundle_program" -> "bundle_program"
      [] name = "with_program_arguments" -> "program_arguments"
      [] name = "with_run_at_load" -> "run_at_load"
      [] name = "with_queue_directories" -> "queue_directories"
      [] name = "with_watch_paths" -> "watch_paths"
      [] name = "with_start_on_mount" -> "start_on_mount"
      [] name = "with_start_interval" -> "start_interval"
      [] name = "with_start_calendar_intervals" -> "start_calendar_intervals"
      [] name = "with_abandon_process_group" -> "abandon_process_group"
      [] name = "with_debug" -> "debug"
      [] name = "with_enable_globbing" -> "enable_globbing"
      [] name = "with_enable_transactions" -> "enable_transactions"
      [] name = "with_enable_pressured_exit" -> "enable_pressured_exit"
      [] name = "with_environment_variables" -> "environment_variables"
      [] name = "with_exit_timeout" -> "exit_time_out"
      [] name = "with_init_groups" -> "init_groups"
      [] name = "with_launch_only_once" -> "launch_only_once"
      [] name = "with_limit_load_from_hosts" -> "limit_load_from_hosts"
      [] name = "with_limit_to_from_hosts" -> "limit_load_to_hosts"
      [] name = "with_limit_load_to_session_type" -> "limit_load_to_session_type"
      [] name = "with_limit_load_to_hardware" -> "limit_load_to_hardware"
      [] name = "with_limit_load_from_hardware" -> "limit_load_from_hardware"
      [] name = "with_low_priority_io" -> "low_priority_io"
      [] name = "with_low_priority_background_io" -> "low_priority_background_io"
      [] name = "with_mach_services" -> "mach_services"
      [] name = "with_nice" -> "nice"
      [] name = "with_root_directory" -> "root_directory"
      [] name = "with_standard_error_path" -> "standard_error_path"
      [] name = "with_standard_in_path" -> "standard_in_path"
      [] name = "with_standard_out_path" -> "standard_out_path"
      [] name = "with_throttle_interval" -> "throttle_interval"
      [] name = "with_timeout" -> "time_out"
      [] name = "with_umask" -> "umask"
      [] name = "with_wait_for_debugger" -> "wait_for_debugger"
      [] name = "with_materialize_dataless_files" -> "materialize_dataless_files"
      [] name = "with_working_directory" -> "working_directory"
      [] name = "with_inetd_compatibility" -> "inetd_compatibility"
      [] name = "with_keep_alive" -> "keep_alive"
      [] name = "with_process_type" -> "process_type"
      [] name = "with_hard_resource_limits" -> "hard_resource_limits"
      [] name = "with_soft_resource_limits" -> "soft_resource_limits"
      [] name = "with_launch_events" -> "launch_events"
      [] name = "with_session_create" -> "session_create"

\* the value a field holds once it was set to v
Holding(f, v) ==
    IF f = "label" THEN v
    ELSE IF f = "inetd_compatibility" THEN Some("Wait" :> v)
    ELSE Some(v)

----------------------------------------------------------------------------
(* Property-list documents and the derived Serialize / Deserialize          *)

\* plist::Value, the tree a document is: t is "boolean", "string",
\* "integer", "array" or "dictionary"
Value(t, v) == [t |-> t, v |-> v]

\* enum ProcessType
ProcessTypes == {"Background", "Standard", "Adaptive", "Interactive"}

\* Error::EnumDeserialization(value.to_owned())
EnumDeserialization(value) == [kind |-> "EnumDeserialization", value |-> value]

try_from_any_case(s) ==
    CASE s \in {"Background", "background"} -> Ok("Background")
      [] s \in {"Standard", "standard"} -> Ok("Standard")
      [] s \in {"Adaptive", "adaptive"} -> Ok("Adaptive")
      [] s \in {"Interactive", "interactive"} -> Ok("Interactive")
      [] OTHER -> Err(EnumDeserialization(s))

try_from_lossy(s) ==
    CASE s = "Background" -> Ok("Background")
      [] s = "Standard" -> Ok("Standard")
      [] s = "Adaptive" -> Ok("Adaptive")
      [] OTHER -> Err(EnumDeserialization(s))

\* impl TryFrom<String> for ProcessType: the match on s.as_str()
try_from(s) ==
    CASE s = "Background" -> Ok("Background")
      [] s = "Standard" -> Ok("Standard")
      [] s = "Adaptive" -> Ok("Adaptive")
      [] s = "Interactive" -> Ok("Interactive")
      [] OTHER -> Err(EnumDeserialization(s))

\* the key each field of Launchd is written under: rename_all = "PascalCase"
\* and the rename attributes
LaunchdKey(f) ==
    CASE f = "label" -> "Label"
      [] f = "disabled" -> "Disabled"
      [] f = "user_name" -> "UserName"
      [] f = "group_name" -> "GroupName"
      [] f = "inetd_compatibility" -> "inetdCompatibility"
      [] f = "limit_load_to_hosts" -> "LimitLoadToHosts"
      [] f = "limit_load_from_hosts" -> "LimitLoadFromHosts"
      [] f = "limit_load_to_session_type" -> "LimitLoadToSessionType"
      [] f = "limit_load_to_hardware" -> "LimitLoadToHardware"
      [] f = "limit_load_from_hardware" -> "LimitLoadFromHardware"
      [] f = "program" -> "Program"
      [] f = "bundle_program" -> "BundleProgram"
      [] f = "program_arguments" -> "ProgramArguments"
      [] f = "enable_globbing" -> "EnableGlobbing"
      [] f = "enable_transactions" -> "EnableTransactions"
      [] f = "enable_pressured_exit" -> "EnablePressuredExit"
      [] f = "on_demand" -> "OnDemand"
      [] f = "service_ipc" -> "ServiceIPC"
      [] f = "keep_alive" -> "KeepAlive"
      [] f = "run_at_load" -> "RunAtLoad"
      [] f = "root_directory" -> "RootDirectory"
      [] f = "working_directory" -> "WorkingDirectory"
      [] f = "environment_variables" -> "EnvironmentVariables"
      [] f = "umask" -> "Umask"
      [] f = "time_out" -> "TimeOut"
      [] f = "exit_time_out" -> "ExitTimeOut"
      [] f = "throttle_interval" -> "ThrottleInterval"
      [] f = "init_groups" -> "InitGroups"
      [] f = "watch_paths" -> "WatchPaths"
      [] f = "queue_directories" -> "QueueDirectories"
      [] f = "start_on_mount" -> "StartOnMount"
      [] f = "start_interval" -> "StartInterval"
      [] f = "start_calendar_intervals" -> "StartCalendarIntervals"
      [] f = "standard_in_path" -> "StandardInPath"
      [] f = "standard_out_path" -> "StandardOutPath"
      [] f = "standard_error_path" -> "StandardErrorPath"
      [] f = "debug" -> "Debug"
      [] f = "wait_for_debugger" -> "WaitForDebugger"
      [] f = "soft_resource_limits" -> "SoftResourceLimits"
      [] f = "hard_resource_limits" -> "HardResourceLimits"
      [] f = "nice" -> "Nice"
      [] f = "process_type" -> "ProcessType"
      [] f = "abandon_process_group" -> "AbandonProcessGroup"
      [] f = "low_priority_io" -> "LowPriorityIO"
      [] f = "low_priority_background_io" -> "LowPriorityBackgroundIO"
      [] f = "materialize_dataless_files" -> "MaterializeDatalessFiles"
      [] f = "launch_only_once" -> "LaunchOnlyOnce"
      [] f = "mach_services" -> "MachServices"
      [] f = "sockets" -> "Sockets"
      [] f = "launch_events" -> "LaunchEvents"
      [] f = "hopefully_exits_last" -> "HopefullyExitsLast"
      [] f = "hopefully_exits_first" -> "HopefullyExitsFirst"
      [] f = "session_create" -> "SessionCreate"
      [] f = "legacy_timers" -> "LegacyTimers"

\* the type of each field of Launchd, inside its Option
LaunchdType(f) ==
    CASE f = "label" -> "String"
      [] f = "disabled" -> "bool"
      [] f = "user_name" -> "String"
      [] f = "group_name" -> "String"
      [] f = "inetd_compatibility" -> "HashMap<InetdCompatibility, bool>"
      [] f = "limit_load_to_hosts" -> "Vec<String>"
      [] f = "limit_load_from_hosts" -> "Vec<String>"
      [] f = "limit_load_to_session_type" -> "LoadSessionType"
      [] f = "limit_load_to_hardware" -> "HashMap<String, Vec<String>>"
      [] f = "limit_load_from_hardware" -> "HashMap<String, Vec<String>>"
      [] f = "program" -> "PathBuf"
      [] f = "bundle_program" -> "String"
      [] f = "program_arguments" -> "Vec<String>"
      [] f = "enable_globbing" -> "bool"
      [] f = "enable_transactions" -> "bool"
      [] f = "enable_pressured_exit" -> "bool"
      [] f = "on_demand" -> "bool"
      [] f = "service_ipc" -> "bool"
      [] f = "keep_alive" -> "KeepAliveType"
      [] f = "run_at_load" -> "bool"
      [] f = "root_directory" -> "PathBuf"
      [] f = "working_directory" -> "PathBuf"
      [] f = "environment_variables" -> "HashMap<String, String>"
      [] f = "umask" -> "u16"
      [] f = "time_out" -> "u32"
      [] f = "exit_time_out" -> "u32"
      [] f = "throttle_interval" -> "u32"
      [] f = "init_groups" -> "bool"
      [] f = "watch_paths" -> "Vec<String>"
      [] f = "queue_directories" -> "Vec<String>"
      [] f = "start_on_mount" -> "bool"
      [] f = "start_interval" -> "u32"
      [] f = "start_calendar_intervals" -> "Vec<CalendarInterval>"
      [] f = "standard_in_path" -> "PathBuf"
      [] f = "standard_out_path" -> "PathBuf"
      [] f = "standard_error_path" -> "PathBuf"
      [] f = "debug" -> "bool"
      [] f = "wait_for_debugger" -> "bool"
      [] f = "soft_resource_limits" -> "ResourceLimits"
      [] f = "hard_resource_limits" -> "ResourceLimits"
      [] f = "nice" -> "i32"
      [] f = "process_type" -> "ProcessType"
      [] f = "abandon_process_group" -> "bool"
      [] f = "low_priority_io" -> "bool"
      [] f = "low_priority_background_io" -> "bool"
      [] f = "materialize_dataless_files" -> "bool"
      [] f = "launch_only_once" -> "bool"
      [] f = "mach_services" -> "HashMap<String, MachServiceEntry>"
      [] f = "sockets" -> "Sockets"
      [] f = "launch_events" -> "LaunchEvents"
      [] f = "hopefully_exits_last" -> "bool"
      [] f = "hopefully_exits_first" -> "bool"
      [] f = "session_create" -> "bool"
      [] f = "legacy_timers" -> "bool"

\* struct KeepAliveOptions, rename_all = "PascalCase"
KeepAliveOptionsFields ==
    [successful_exit   |-> [key |-> "SuccessfulExit", type |-> "bool"],
     network_state     |-> [key |-> "NetworkState", type |-> "bool"],
     path_state        |-> [key |-> "PathState", type |-> "HashMap<String, bool>"],
     other_job_enabled |-> [key |-> "OtherJobEnabled", type |-> "HashMap<String, bool>"]]

\* struct MachServiceOptions, rename_all = "PascalCase"
MachServiceOptionsFields ==
    [reset_at_close      |-> [key |-> "ResetAtClose", type |-> "bool"],
     hide_until_check_in |-> [key |-> "HideUntilCheckIn", type |-> "bool"]]

\* struct SocketOptions, rename_all = "PascalCase": the fields the documents
\* of the model hold
SocketOptionsFields ==
    [sock_passive      |-> [key |-> "SockPassive", type |-> "bool"],
     sock_service_name |-> [key |-> "SockServiceName", type |-> "String"],
     bonjour           |-> [key |-> "Bonjour", type |-> "BonjourTypes"]]

StructTypes == {"Launchd", "KeepAliveOptions", "MachServiceOptions", "SocketOptions"}

StructFields(T) ==
    CASE T = "Launchd" ->
             [f \in LaunchdFields |-> [key |-> LaunchdKey(f), type |-> LaunchdType(f)]]
      [] T = "KeepAliveOptions" -> KeepAliveOptionsFields
      [] T = "MachServiceOptions" -> MachServiceOptionsFields
      [] T = "SocketOptions" -> SocketOptionsFields

\* a field that is no Option: label: String
Required(T, f) == T = "Launchd" /\ f = "label"

DenyUnknownFields_nowhere(T) == FALSE

\* #[serde(deny_unknown_fields)] is on Launchd alone
DenyUnknownFields(T) == T = "Launchd"

\* the untagged enums: their variants in the order they are declared, which
\* is the order the derived Deserialize tries them in
KeepAliveTypeVariants ==
    <<[variant |-> "Enabled", type |-> "bool"],
      [variant |-> "Options", type |-> "KeepAliveOptions"]>>

MachServiceEntryVariants ==
    <<[variant |-> "Boolean", type |-> "bool"],
      [variant |-> "Map", type |-> "MachServiceOptions"]>>

LoadSessionTypeVariants_array_first ==
    <<[variant |-> "Array", type |-> "Vec<String>"],
      [variant |-> "BareString", type |-> "String"]>>

LoadSessionTypeVariants ==
    <<[variant |-> "BareString", type |-> "String"],
      [variant |-> "Array", type |-> "Vec<String>"]>>

SocketsVariants ==
    <<[variant |-> "Dictionary", type |-> "HashMap<String, SocketOptions>"],
      [variant |-> "Array", type |-> "Vec<HashMap<String, SocketOptions>>"]>>

BonjourTypesVariants ==
    <<[variant |-> "Boolean", type |-> "bool"],
      [variant |-> "String", type |-> "String"],
      [variant |-> "Array", type |-> "Vec<String>"]>>

UntaggedTypes ==
    {"KeepAliveType", "MachServiceEntry", "LoadSessionType", "Sockets", "BonjourTypes"}

Variants(T) ==
    CASE T = "KeepAliveType" -> KeepAliveTypeVariants
      [] T = "MachServiceEntry" -> MachServiceEntryVariants
      [] T = "LoadSessionType" -> LoadSessionTypeVariants
      [] T = "Sockets" -> SocketsVariants
      [] T = "BonjourTypes" -> BonjourTypesVariants

\* Vec<T> and HashMap<K, T>: the element type
VecTypes == {"Vec<String>", "Vec<HashMap<String, SocketOptions>>"}

MapTypes ==
    {"HashMap<String, String>", "HashMap<String, bool>", "HashMap<String, Vec<String>>",
     "HashMap<InetdCompatibility, bool>", "HashMap<String, MachServiceEntry>",
     "HashMap<String, SocketOptions>"}

ElemType(T) ==
    CASE T = "Vec<String>" -> "String"
      [] T = "Vec<HashMap<String, SocketOptions>>" -> "HashMap<String, SocketOptions>"
      [] T = "HashMap<String, String>" -> "String"
      [] T = "HashMap<String, bool>" -> "bool"
      [] T = "HashMap<String, Vec<String>>" -> "Vec<String>"
      [] T = "HashMap<InetdCompatibility, bool>" -> "bool"
      [] T = "HashMap<String, MachServiceEntry>" -> "MachServiceEntry"
      [] T = "HashMap<String, SocketOptions>" -> "SocketOptions"

\* the keys a map of type T may have: enum InetdCompatibility { Wait }
KeyAllowed(T, k) == T = "HashMap<InetdCompatibility, bool>" => k = "Wait"

\* u16 and u32 have no negative values; the documents of the model hold no
\* integer beyond 2^31
IntFits(T, n) ==
    CASE T = "u16" -> 0 <= n /\ n <= 65535
      [] T = "u32" -> 0 <= n
      [] T = "i32" -> TRUE

\* a value of an untagged enum: Sockets as with_socket builds it, the others
\* as [variant, v]
Make(T, variant, x) ==
    IF T = "Sockets"
    THEN IF variant = "Dictionary" THEN Dictionary(x) ELSE Array(x)
    ELSE [variant |-> variant, v |-> x]

\* derive(Serialize): a struct is a dictionary of its renamed fields, a None
\* left out; an untagged enum is its payload alone; a unit variant is its
\* name
RECURSIVE serialize(_, _)
serialize(T, x) ==
    CASE T = "bool" -> Value("boolean", x)
      [] T \in {"String", "PathBuf", "ProcessType"} -> Value("string", x)
      [] T \in {"u16", "u32", "i32"} -> Value("integer", x)
      [] T \in VecTypes ->
             Value("array", [i \in DOMAIN x |-> serialize(ElemType(T), x[i])])
      [] T \in MapTypes ->
             Value("dictionary", [k \in DOMAIN x |-> serialize(ElemType(T), x[k])])
      [] T \in UntaggedTypes ->
             LET variant == IF T = "Sockets" THEN x.kind ELSE x.variant
                 payload == IF T = "Sockets"
                            THEN IF x.kind = "Dictionary" THEN x.dict ELSE x.arr
                            ELSE x.v
                 i == CHOOSE j \in DOMAIN Variants(T) : Variants(T)[j].variant = variant
             IN  serialize(Variants(T)[i].type, payload)
      [] T \in StructTypes ->
             LET fields == StructFields(T)
                 written == { f \in DOMAIN fields : Required(T, f) \/ x[f] # Unset }
             IN  Value("dictionary",
                       [k \in { fields[f].key : f \in written } |->
                           LET f == CHOOSE g \in DOMAIN fields : fields[g].key = k
                           IN  serialize(fields[f].type,
                                         IF Required(T, f) THEN x[f] ELSE x[f][1])])
      [] OTHER -> x

\* derive(Deserialize): the set holding the decoded value, empty when the
\* value does not decode as a T. An untagged enum is the first variant, in
\* the order of Variants, that the value decodes as
RECURSIVE deserialize_as(_, _)
deserialize_as(T, p) ==
    CASE T = "bool" -> IF p.t = "boolean" THEN {p.v} ELSE {}
      [] T \in {"String", "PathBuf"} -> IF p.t = "string" THEN {p.v} ELSE {}
      [] T \in {"u16", "u32", "i32"} ->
             IF p.t = "integer" /\ IntFits(T, p.v) THEN {p.v} ELSE {}
      [] T = "ProcessType" ->
             IF p.t = "string" /\ try_from(p.v).ok THEN {try_from(p.v).val} ELSE {}
      [] T \in VecTypes ->
             IF p.t = "array" /\ \A i \in DOMAIN p.v : deserialize_as(ElemType(T), p.v[i]) # {}
             THEN {[i \in DOMAIN p.v |->
                       CHOOSE x \in deserialize_as(ElemType(T), p.v[i]) : TRUE]}
             ELSE {}
      [] T \in MapTypes ->
             IF /\ p.t = "dictionary"
                /\ \A k \in DOMAIN p.v :
                       KeyAllowed(T, k) /\ deserialize_as(ElemType(T), p.v[k]) # {}
             THEN {[k \in DOMAIN p.v |->
                       CHOOSE x \in deserialize_as(ElemType(T), p.v[k]) : TRUE]}
             ELSE {}
      [] T \in UntaggedTypes ->
             LET hits == { i \in DOMAIN Variants(T) :
                              deserialize_as(Variants(T)[i].type, p) # {} }
             IN  IF hits = {} THEN {}
                 ELSE LET i == CHOOSE h \in hits : \A g \in hits : h <= g
                      IN  {Make(T, Variants(T)[i].variant,
                                CHOOSE x \in deserialize_as(Variants(T)[i].type, p) : TRUE)}
      [] T \in StructTypes ->
             LET fields == StructFields(T)
             IN  IF /\ p.t = "dictionary"
                    /\ DenyUnknownFields(T)
                           => DOMAIN p.v \subseteq { fields[f].key : f \in DOMAIN fields }
                    /\ \A f \in DOMAIN fields :
                           IF fields[f].key \in DOMAIN p.v
                           THEN deserialize_as(fields[f].type, p.v[fields[f].key]) # {}
                           ELSE ~Required(T, f)
                 THEN {[f \in DOMAIN fields |->
                           IF fields[f].key \in DOMAIN p.v
                           THEN LET x == CHOOSE y \in deserialize_as(fields[f].type,
                                                       p.v[fields[f].key]) : TRUE
                                IN  IF Required(T, f) THEN x ELSE Some(x)
                           ELSE Unset]}
                 ELSE {}
      [] OTHER -> {p}

\* the variants the derived Deserialize of an untagged enum tries on p, in
\* the order it tries them: up to the first that decodes
Tried(T, p) ==
    LET hits == { i \in DOMAIN Variants(T) : deserialize_as(Variants(T)[i].type, p) # {} }
        last == IF hits = {} THEN Len(Variants(T))
                ELSE CHOOSE h \in hits : \A g \in hits : h <= g
    IN  [i \in 1..last |-> Variants(T)[i].variant]

\* plist::to_writer_xml(writer, self).map_err(Error::Write)
to_writer_xml(self) == Ok(serialize("Launchd", self))

\* plist::from_bytes / from_file / from_reader / from_reader_xml, each with
\* map_err(Error::Read)
from_plist(p) ==
    IF deserialize_as("Launchd", p) = {}
    THEN Err([kind |-> "Read"])
    ELSE Ok(CHOOSE x \in deserialize_as("Launchd", p) : TRUE)

----------------------------------------------------------------------------
(* SpecPlist: a Launchd is built, written, and read back; a document from   *)
(* elsewhere is read; a string or a value is decoded on its own             *)

\* strings a ProcessType is decoded from
ProcessTypeStrings ==
    ProcessTypes \cup {"background", "BACKGROUND", "Background ", "", "Batch"}

\* values a document holds under a key
PlistSamples ==
    <<Value("boolean", TRUE),
      Value("string", "Background"),
      Value("string", "background"),
      Value("integer", 0 - 1),
      Value("array", <<>>),
      Value("array", <<Value("string", "a")>>),
      Value("array", <<Value("dictionary", <<>>)>>),
      Value("dictionary", <<>>),
      Value("dictionary", "http" :> Value("dictionary", "Bonjour" :> Value("boolean", TRUE))),
      Value("dictionary", "ResetAtClose" :> Value("boolean", TRUE))>>

\* SocketOptions::new()
SocketOptions_new == [sock_passive |-> Unset, sock_service_name |-> Unset, bonjour |-> Unset]

\* values the setter of a field of type T is given; none for the types the
\* model has no values of
ArgSamples(T) ==
    CASE T = "bool" -> <<TRUE, FALSE>>
      [] T \in {"String", "PathBuf"} -> <<"a">>
      [] T \in {"u16", "u32", "i32"} -> <<0, 1>>
      [] T = "Vec<String>" -> << <<>>, <<"a", "b">> >>
      [] T = "HashMap<String, String>" -> << "K" :> "v" >>
      [] T = "HashMap<String, Vec<String>>" -> << "cpu" :> <<"a">> >>
      [] T = "LoadSessionType" ->
             <<[variant |-> "BareString", v |-> "Aqua"],
               [variant |-> "Array", v |-> <<>>],
               [variant |-> "Array", v |-> <<"Aqua", "LoginWindow">>]>>
      [] T = "KeepAliveType" ->
             LET none == [successful_exit |-> Unset, network_state |-> Unset,
                          path_state |-> Unset, other_job_enabled |-> Unset]
             IN  <<[variant |-> "Enabled", v |-> TRUE],
                   [variant |-> "Enabled", v |-> FALSE],
                   [variant |-> "Options", v |-> none],
                   [variant |-> "Options",
                    v |-> [none EXCEPT !.successful_exit = Some(FALSE),
                                       !.path_state = Some("/tmp" :> TRUE)]]>>
      [] T = "ProcessType" -> <<"Background", "Standard", "Adaptive", "Interactive">>
      [] T = "HashMap<String, MachServiceEntry>" ->
             << <<>>,
                "svc" :> [variant |-> "Boolean", v |-> TRUE],
                "svc" :> [variant |-> "Map", v |-> MachServiceOptions_new],
                "svc" :> [variant |-> "Map", v |-> reset_at_close(MachServiceOptions_new)] >>
      [] T = "Sockets" ->
             <<Dictionary(<<>>),
               Dictionary("http" :> SocketOptions_new),
               Dictionary("http" :> [SocketOptions_new EXCEPT
                                        !.bonjour = Some([variant |-> "Boolean", v |-> TRUE])]),
               Array(<<>>),
               Array(<<"http" :> [SocketOptions_new EXCEPT !.sock_passive = Some(TRUE)]>>),
               Array(<<"http" :> [SocketOptions_new EXCEPT
                                     !.bonjour = Some([variant |-> "String", v |-> "web"])],
                       "ssh" :> [SocketOptions_new EXCEPT
                                    !.bonjour = Some([variant |-> "Array", v |-> <<"a">>])]>>)>>
      [] OTHER -> <<>>

\* the type of the parameter of a setter
ParamType(name) ==
    IF name = "with_inetd_compatibility" THEN "bool"
    ELSE IF name = "with_socket" THEN "Sockets"
    ELSE LaunchdType(Assigns(name))

ReadEntries == {"from_bytes", "from_file", "from_reader", "from_reader_xml"}

PlistInit ==
    /\ pc = "start"
    /\ launchd = <<>>
    /\ document = <<>>
    /\ options = <<>>
    /\ call = NoCall
    /\ calls = 0
    /\ hist = <<>>
    /\ ci = Default
    /\ schedule = <<>>
    /\ it = <<>>
    /\ lvl = 0
    /\ result_vec = <<>>
    /\ ret = Pending
    /\ runs = 0

PlistFrame == <<calls, hist, ci, options, CronVars>>

\* ProcessType::try_from(s)
TryFrom ==
    /\ pc = "start"
    /\ \E s \in ProcessTypeStrings :
           call' = [setter |-> "try_from", self |-> "ProcessType", arg |-> s,
                    res |-> try_from(s)]
    /\ pc' = "converted"
    /\ UNCHANGED <<launchd, document, PlistFrame>>

\* a value is decoded as an untagged enum
DeserializeUntagged ==
    /\ pc = "start"
    /\ \E T \in UntaggedTypes : \E i \in DOMAIN PlistSamples :
           call' = [setter |-> "deserialize", self |-> T, arg |-> PlistSamples[i],
                    res |-> IF deserialize_as(T, PlistSamples[i]) = {}
                            THEN Err([kind |-> "Read"])
                            ELSE Ok(CHOOSE x \in deserialize_as(T, PlistSamples[i]) : TRUE),
                    tried |-> Tried(T, PlistSamples[i])]
    /\ pc' = "converted"
    /\ UNCHANGED <<launchd, document, PlistFrame>>

\* Launchd::new("Label", "./henk.sh").with_<field>(value)
Build ==
    /\ pc = "start"
    /\ \E name \in WithSetters \cup {"with_socket"} :
           \E i \in DOMAIN ArgSamples(ParamType(name)) :
               LET value == ArgSamples(ParamType(name))[i]
                   self == Launchd_new("Label", "./henk.sh")
               IN  launchd' = IF name = "with_socket" THEN with_socket(self, value)
                              ELSE with_field(name, self, value)
    /\ pc' = "built"
    /\ UNCHANGED <<call, document, PlistFrame>>

\* launchd.to_writer_xml(writer)
ToWriterXml ==
    /\ pc = "built"
    /\ document' = to_writer_xml(launchd).val
    /\ pc' = "written"
    /\ UNCHANGED <<call, launchd, PlistFrame>>

\* the document to read is another one: a key more, a key less, or another
\* value under a key
Edit ==
    /\ pc = "written"
    /\ \/ \E k \in {"Bogus", "label"} : \E i \in DOMAIN PlistSamples :
              document' = Value("dictionary", document.v @@ (k :> PlistSamples[i]))
       \/ \E k \in DOMAIN document.v : \E i \in DOMAIN PlistSamples :
              document' = Value("dictionary", [document.v EXCEPT ![k] = PlistSamples[i]])
       \/ \E k \in DOMAIN document.v :
              document' = Value("dictionary",
                                [j \in DOMAIN document.v \ {k} |-> document.v[j]])
    /\ pc' = "edited"
    /\ UNCHANGED <<call, launchd, PlistFrame>>

\* Launchd::from_bytes / from_file / from_reader / from_reader_xml
Read ==
    /\ pc \in {"written", "edited"}
    /\ \E entry \in ReadEntries :
           call' = [setter |-> entry, self |-> launchd, arg |-> document,
                    res |-> from_plist(document), edited |-> pc = "edited"]
    /\ pc' = "read"
    /\ UNCHANGED <<launchd, document, PlistFrame>>

PlistNext ==
    \/ TryFrom
    \/ DeserializeUntagged
    \/ Build
    \/ ToWriterXml
    \/ Edit
    \/ Read

SpecPlist == PlistInit /\ [][PlistNext]_vars

----------------------------------------------------------------------------
(* Claims about decoding and encoding                                       *)

C22_UnknownKeyRejected ==
    (call.setter \in ReadEntries
       /\ \E k \in DOMAIN call.arg.v : k \notin { LaunchdKey(f) : f \in LaunchdFields })
        => ~call.res.ok

\* from_bytes read a document that is a written Launchd plus the key Bogus
C22_Witness ==
    /\ call.setter = "from_bytes"
    /\ call.edited
    /\ DOMAIN call.arg.v = {"Label", "Program", "Debug", "Bogus"}
    /\ call.arg.v["Debug"] = Value("boolean", TRUE)
    /\ ~call.res.ok

ShapeRank(type) ==
    CASE type = "bool" -> 1
      [] type = "String" -> 2
      [] type \in VecTypes -> 3
      [] OTHER -> 4

\* the shapes of the members that were tried, in the order they were tried
TriedRanks ==
    [i \in DOMAIN call.tried |-> ShapeRank(Variants(call.self)[i].type)]

\* the member a decoded value of the union is
DecodedMember == IF call.self = "Sockets" THEN call.res.val.kind ELSE call.res.val.variant

\* C24 as stated: in every union-typed slot the members are tried in the
\* order scalar boolean, scalar string, list, structured record.
C24_BooleanStringListRecord ==
    call.setter = "deserialize"
        => \A i, j \in DOMAIN call.tried : i < j => TriedRanks[i] < TriedRanks[j]

\* C24, amended: the members are tried in that order in every slot but the
\* socket list, where the structured record is tried before the list; the
\* first member that matches is returned, a value that matches none fails;
\* and no value matches a second member, so the order does not change what
\* a value decodes to.
C24_DeclaredOrder ==
    call.setter = "deserialize"
        => /\ call.self # "Sockets"
                  => \A i, j \in DOMAIN call.tried : i < j => TriedRanks[i] < TriedRanks[j]
           /\ (call.self = "Sockets" /\ Len(call.tried) = 2)
                  => TriedRanks = <<4, 3>>
           /\ call.tried # <<>>
           /\ call.res.ok => DecodedMember = call.tried[Len(call.tried)]
           /\ \A i \in DOMAIN Variants(call.self) :
                  deserialize_as(Variants(call.self)[i].type, call.arg) # {}
                      => call.res.ok /\ DecodedMember = Variants(call.self)[i].variant
           /\ ~call.res.ok
                  => /\ Len(call.tried) = Len(Variants(call.self))
                     /\ \A i \in DOMAIN Variants(call.self) :
                            deserialize_as(Variants(call.self)[i].type, call.arg) = {}

\* a list of one record was decoded as a socket list: the record member was
\* tried and did not match, then the list member matched
C24_Witness ==
    /\ call.setter = "deserialize"
    /\ call.self = "Sockets"
    /\ call.arg.t = "array"
    /\ Len(call.arg.v) = 1
    /\ call.arg.v[1].t = "dictionary"
    /\ call.tried = <<"Dictionary", "Array">>
    /\ call.res.ok
    /\ call.res.val.kind = "Array"

----------------------------------------------------------------------------
(* Claims about the loop nest of from_cron_schedule *)

\* the product of the sizes of the explicit units' sets (1 when every unit
\* is a wildcard)
ExplicitProduct(s) ==
    Passes(s, 1) * Passes(s, 2) * Passes(s, 3) * Passes(s, 4) * Passes(s, 5)

\* the loop of unit number k has run its body to the end, or has been left
LoopBodyDone(k) == (pc = "brk" /\ lvl <= k) \/ (Returned /\ ret.tag = "Ok")

\* C25: the loop of a wildcard unit yields one value only each time it is
\* entered, so its body runs exactly once per iteration of the enclosing
\* loop, however many values the wildcard set holds; and an expansion that
\* returns without error has run the innermost body as many times as the
\* product of the explicit units' set sizes (once when all are wildcards).
C25_WildcardRunsOnce ==
    /\ \A k \in 1..NUnits :
           schedule[Units[k]].all
               => /\ it[k] <= 1
                  /\ LoopBodyDone(k) => it[k] = 1
    /\ (Returned /\ ret.tag = "Ok") => runs = ExplicitProduct(schedule)

\* an expansion over two explicit units of two values each and three
\* wildcard units of several values has returned without error
C25_Witness ==
    /\ Returned
    /\ ret.tag = "Ok"
    /\ Cardinality(ExplicitUnits(schedule)) = 2
    /\ \A u \in Fields : Len(schedule[u].ords) > 1
    /\ runs = 4

\* C26: (every unit's set being non-empty) the expansion returns an error
\* if and only if some explicit unit's set holds a value that fails the
\* conversion or its field's range; the values of wildcard units are
\* neither converted nor validated.
C26_ErrorIffInvalidExplicit ==
    Returned
        => /\ \A u \in Fields : Len(schedule[u].ords) > 0
           /\ ret.tag = "Err" <=> InvalidExplicit(schedule) # {}

\* an expansion has returned an error for an explicit unit's value after
\* running bodies over a wildcard unit whose first value is invalid
C26_Witness ==
    /\ Returned
    /\ ret.tag = "Err"
    /\ runs > 1
    /\ \E u \in Fields : schedule[u].all /\ ~InRange(u, schedule[u].ords[1])

\* the positions of combination c at which an explicit unit's value is
\* invalid
InvalidAt(s, c) ==
    { k \in 1..NUnits :
        ~s[Units[k]].all /\ ~InRange(Units[k], s[Units[k]].ords[c[k]]) }

\* the error of one invalid value of unit u
ErrorFor(u, v) ==
    IF v > U8Max
    THEN InvalidCronField(v)
    ELSE CalendarFieldOutOfBounds(FieldRange(u).lo, FieldRange(u).hi, v)

\* the first unit in check order (month, weekday, day, hour, minute) whose
\* value in combination c is invalid
FirstInvalid(s, c) == CHOOSE k \in InvalidAt(s, c) : \A j \in InvalidAt(s, c) : k <= j

\* C27: when several explicit values are invalid, the error returned is
\* the one of the first invalid value met: the expansion stops at the first
\* combination in iteration order (month outermost, minute innermost) that
\* holds an invalid value, no combination before it holding one, and the
\* error is that of the first invalid unit of that combination in the
\* order month, weekday, day, hour, minute.
C27_FirstErrorInIterationOrder ==
    (Returned /\ ret.tag = "Err")
        => /\ it \in Combos(schedule)
           /\ InvalidAt(schedule, it) # {}
           /\ \A d \in Combos(schedule) : Before(d, it) => InvalidAt(schedule, d) = {}
           /\ runs = Cardinality({ d \in Combos(schedule) : Before(d, it) }) + 1
           /\ LET k == FirstInvalid(schedule, it)
              IN  ret.err = ErrorFor(Units[k], schedule[Units[k]].ords[it[k]])

\* an expansion over a schedule with invalid values in two explicit units
\* has run bodies without error and then returned an error, and it is the
\* error of the inner of the two units
C27_Witness ==
    /\ Returned
    /\ ret.tag = "Err"
    /\ runs > 1
    /\ \E k \in 1..NUnits : \E j \in (k + 1)..NUnits :
           /\ \E v \in Range(schedule[Units[k]].ords) : <<Units[k], v>> \in InvalidExplicit(schedule)
           /\ InvalidAt(schedule, it) = {j}

----------------------------------------------------------------------------
(* Claims about chains of with_socket *)

\* the socket records of a Sockets value, in order: the one record of a
\* Dictionary, the elements of an Array
Flatten(sockets) ==
    IF sockets.kind = "Dictionary" THEN <<sockets.dict>> ELSE sockets.arr

\* the flattened arguments of the calls of a chain, concatenated in call order
RECURSIVE Supplied(_)
Supplied(h) ==
    IF h = <<>> THEN <<>>
    ELSE Supplied(SubSeq(h, 1, Len(h) - 1)) \o Flatten(h[Len(h)].arg)

\* C28: after any chain of with_socket calls on a Launchd without sockets,
\* the stored value flattened is the concatenation, in call order, of the
\* flattened arguments, so as many sockets are stored as were supplied;
\* and the stored value is a single record only if one call was made and
\* its argument was a single record.
C28_SocketsInCallOrder ==
    /\ hist = <<>> => launchd.sockets = Unset
    /\ hist # <<>>
           => /\ launchd.sockets # Unset
              /\ Flatten(launchd.sockets[1]) = Supplied(hist)
              /\ launchd.sockets[1].kind = "Dictionary"
                     => Len(hist) = 1 /\ hist[1].arg.kind = "Dictionary"

\* a list of two records was added to a list of one record
C28_Witness ==
    /\ Len(hist) = 2
    /\ hist[1].self.sockets = Unset
    /\ hist[1].arg = Array(<<"ssh" :> 1>>)
    /\ hist[2].arg = Array(<<"http" :> 1, "http" :> 2>>)
    /\ launchd.sockets = Some(Array(<<"ssh" :> 1, "http" :> 1, "http" :> 2>>))

----------------------------------------------------------------------------
(* Claims about the host-list and timeout setters *)

\* the field the specification gives each of the four setters
OwnField(name) ==
    CASE name = "with_limit_load_from_hosts" -> "limit_load_from_hosts"
      [] name = "with_limit_to_from_hosts" -> "limit_load_to_hosts"
      [] name = "with_timeout" -> "time_out"
      [] name = "with_exit_timeout" -> "exit_time_out"

HostSetters ==
    {"with_limit_load_from_hosts", "with_limit_to_from_hosts", "with_timeout",
     "with_exit_timeout"}

\* the calls of the chain made to setter name
CallsTo(name) == { i \in DOMAIN hist : hist[i].setter = name }

\* the greatest element of a non-empty set of call numbers
Last(S) == CHOOSE i \in S : \A j \in S : j <= i

\* C29: with_limit_load_from_hosts sets limit_load_from_hosts only,
\* with_limit_to_from_hosts limit_load_to_hosts only, with_timeout time_out
\* only and with_exit_timeout exit_time_out only; after any chain of these
\* calls each of the four fields holds the value of the last call of its
\* own setter, or is unset if that setter was never called.
C29_OwnFieldOnly ==
    /\ \A i \in DOMAIN hist :
           /\ hist[i].res[OwnField(hist[i].setter)] = Some(hist[i].arg)
           /\ \A g \in LaunchdFields \ {OwnField(hist[i].setter)} :
                  hist[i].res[g] = hist[i].self[g]
    /\ \A name \in HostSetters :
           IF CallsTo(name) = {}
           THEN launchd[OwnField(name)] = Unset
           ELSE launchd[OwnField(name)] = Some(hist[Last(CallsTo(name))].arg)

\* both host-list setters were called with different lists, then the first
\* again: each list is in its own field
C29_Witness ==
    /\ Len(hist) = 3
    /\ hist[1].setter = "with_limit_load_from_hosts" /\ hist[1].arg = "a"
    /\ hist[2].setter = "with_limit_to_from_hosts" /\ hist[2].arg = "a"
    /\ hist[3].setter = "with_limit_load_from_hosts" /\ hist[3].arg = "b"
    /\ launchd.limit_load_from_hosts = Some("b")
    /\ launchd.limit_load_to_hosts = Some("a")
    /\ launchd.time_out = Unset

====
